---- MODULE Spec2Model ----
(***************************************************************************)
(* A state-machine model of the PowerKit engine (src/lib/powerkit.cpp):    *)
(* the device registry (scan / deviceAdded / deviceRemoved), the           *)
(* level-to-edge state tracker (deviceChanged) and the connection          *)
(* supervisor (setup / check), together with the part of the system bus    *)
(* the engine talks to (UPower's device list and properties, logind).      *)
(*                                                                         *)
(* A handler is modelled as an operator from a state record to the set of  *)
(* state records it can end in, so that handlers compose the way the code  *)
(* calls them (deviceRemoved -> scan -> UpdateDevices -> Device::update -> *)
(* handleDeviceChanged -> deviceChanged).  An action applies one handler   *)
(* to the current state and installs one of its outcomes.                  *)
(***************************************************************************)
EXTENDS Integers, Sequences, FiniteSets, TLC

\* ------------------------------------------------------------------------
\* Bounds of the model.
\* ------------------------------------------------------------------------

\* How many device objects UPower can export.
MaxDevices == 2

\* The largest cookie an inhibit request carries.
MaxCookie == 2

\* The largest value the tray's tick counter is followed to.
MaxTicks == 3

\* ------------------------------------------------------------------------
\* Object paths.  A path is a sequence of one-character strings, so that
\* QString::startsWith is a real prefix test.
\* ------------------------------------------------------------------------

StartsWith(str, prefix) ==
    /\ Len(str) >= Len(prefix)
    /\ SubSeq(str, 1, Len(prefix)) = prefix

UPOWER_PATH == <<"/", "U">>

\* QString(DBUS_JOBS).arg(UPOWER_PATH), i.e. "%1/jobs"
DBUS_JOBS == UPOWER_PATH \o <<"/", "j">>

\* UPOWER_DEVICES, the prefix find() puts before every introspected node name
UPOWER_DEVICES == UPOWER_PATH \o <<"/", "d", "/">>

\* The node names UPower gives its device objects, in ascending order.
NodeNames == << "a", "b", "c", "d" >>

\* QMap iterates its keys in ascending order.
DevOrder == [i \in 1..MaxDevices |-> UPOWER_DEVICES \o << NodeNames[i] >>]

\* The device object paths UPower can export.
DevIds == { DevOrder[i] : i \in 1..MaxDevices }

\* A transient job object, and a device-like path under the jobs prefix.
JobPaths == { DBUS_JOBS \o <<"/", "1">> }

\* The paths a DeviceAdded / DeviceRemoved signal can carry.
SignalPaths == DevIds \cup JobPaths

NoPath == << >>

\* ------------------------------------------------------------------------
\* Devices.
\* ------------------------------------------------------------------------

\* The property snapshots a Device can read from its backing object.
DeviceProps ==
    { [isBattery |-> FALSE, isPresent |-> TRUE, nativePath |-> "AC",
       percentage |-> 0, timeToEmpty |-> 0, timeToFull |-> 0],
      [isBattery |-> TRUE, isPresent |-> TRUE, nativePath |-> "BAT0",
       percentage |-> 40, timeToEmpty |-> 30, timeToFull |-> 0] }

\* new Device(path, parent): the cached properties are whatever the object
\* read (or failed to read) when it was built.
NewDevice(props) == props

\* Device::update() when the read succeeds: the cached properties are
\* replaced in place.
DeviceUpdate(dev, props) == props

\* ------------------------------------------------------------------------
\* Events (Qt signals emitted by the engine).
\* ------------------------------------------------------------------------

Ev(name) == [name |-> name, path |-> NoPath]

EvPath(name, path) == [name |-> name, path |-> path]

\* How many times the event called name occurs in the sequence evs.
Count(evs, name) == Cardinality({ i \in 1..Len(evs) : evs[i].name = name })

\* ------------------------------------------------------------------------
\* State.
\* ------------------------------------------------------------------------

VARIABLES
    \* the system bus and the services on it
    busConnected,   \* QDBusConnection::systemBus().isConnected()
    upValid,        \* the UPower service answers (upower->isValid())
    lgValid,        \* the logind service answers (logind->isValid())
    ckValid,        \* the ConsoleKit service answers
    upLidClosed,    \* UPower property LidIsClosed
    upOnBattery,    \* UPower property OnBattery
    upDocked,       \* UPower property IsDocked
    lgDocked,       \* logind property Docked
    upDevices,      \* the device object paths UPower exports
    \* the engine (PowerKit's members)
    upower,         \* "null" or "iface"
    logind,         \* "null" or "iface"
    hooks,          \* how many times each signal hook of setup() is
                    \* installed: the slot runs that often per emission
    devices,        \* QMap<QString, Device*>
    wasDocked,
    wasLidClosed,
    wasOnBattery,
    ssInhibitors,   \* QMap<quint32, QString>: cookie -> application
    pmInhibitors,   \* QMap<quint32, QString>: cookie -> application
    crashed,        \* the process has died on a null handle
    \* what the last handler did
    op,             \* [name, path]: the handler and its argument (a path,
                    \* or << application, cookie >>, or << cookie >>, or
                    \* what the bus answered: [valid, reply] or << prop >>)
    emitted,        \* the events it emitted, in order
    updated,        \* the ids whose Device::update() it called
    created,        \* the ids it created a Device for
    destroyed,      \* the ids whose Device it deleted
    scans,          \* how many times it ran scan()
    finds,          \* the results of its find() calls, in order
    batteryUpdated, \* the ids whose Device::updateBattery() it called
    calls,          \* the method calls it sent to a backend, in order
    result,         \* the value it returned
    \* the consumer
    snapshot,       \* the map getDevices() last returned: for each id
                    \* whether the Device it points to is "live" or "deleted"
    \* the tray (SysTray's members and collaborators)
    timeouts,       \* the tick counter
    hasInhibit,     \* pm->HasInhibit(): a power-management inhibit is held
    settings,       \* the configured lid and auto-suspend values
    monitors,       \* QMap<QString, bool>: display -> connected
    internalMonitor,\* the name of the internal display, "" before it is set
    performed       \* the calls the last tray handler made on man

vars == << busConnected, upValid, lgValid, ckValid, upLidClosed, upOnBattery,
           upDocked, lgDocked, upDevices, upower, logind, hooks, devices,
           wasDocked, wasLidClosed, wasOnBattery, ssInhibitors, pmInhibitors,
           crashed, op, emitted, updated, created, destroyed, scans, finds,
           batteryUpdated, calls, result, snapshot, timeouts, hasInhibit,
           settings, monitors, internalMonitor, performed >>

\* The current state as a record, the form the handlers work on.
Cur ==
    [busConnected |-> busConnected, upValid |-> upValid, lgValid |-> lgValid,
     ckValid |-> ckValid, upLidClosed |-> upLidClosed, upOnBattery |-> upOnBattery,
     upDocked |-> upDocked, lgDocked |-> lgDocked, upDevices |-> upDevices,
     upower |-> upower, logind |-> logind, hooks |-> hooks,
     devices |-> devices, wasDocked |-> wasDocked,
     wasLidClosed |-> wasLidClosed, wasOnBattery |-> wasOnBattery,
     ssInhibitors |-> ssInhibitors, pmInhibitors |-> pmInhibitors,
     crashed |-> crashed, emitted |-> emitted, updated |-> updated,
     created |-> created, destroyed |-> destroyed, scans |-> scans,
     finds |-> finds, batteryUpdated |-> batteryUpdated, calls |-> calls,
     result |-> result]

\* What a handler that returns no value leaves in result.
NoResult == [num |-> 0, den |-> 1]

\* The state at the start of a handler: nothing emitted or touched yet.
Begin(s) ==
    [s EXCEPT !.emitted = << >>, !.updated = {}, !.created = {},
              !.destroyed = {}, !.scans = 0, !.finds = << >>,
              !.batteryUpdated = {}, !.calls = << >>, !.result = NoResult]

\* `delete` on the Devices tracked as ids: a pointer a consumer still holds
\* to one of them now points to a deleted object.
Deleted(snap, ids) ==
    [id \in DOMAIN snap |-> IF id \in ids THEN "deleted" ELSE snap[id]]

\* The engine and its environment become the record s.
InstallEngine(s, name, path) ==
    /\ busConnected' = s.busConnected
    /\ upValid' = s.upValid
    /\ lgValid' = s.lgValid
    /\ ckValid' = s.ckValid
    /\ upLidClosed' = s.upLidClosed
    /\ upOnBattery' = s.upOnBattery
    /\ upDocked' = s.upDocked
    /\ lgDocked' = s.lgDocked
    /\ upDevices' = s.upDevices
    /\ upower' = s.upower
    /\ logind' = s.logind
    /\ hooks' = s.hooks
    /\ devices' = s.devices
    /\ wasDocked' = s.wasDocked
    /\ wasLidClosed' = s.wasLidClosed
    /\ wasOnBattery' = s.wasOnBattery
    /\ ssInhibitors' = s.ssInhibitors
    /\ pmInhibitors' = s.pmInhibitors
    /\ crashed' = s.crashed
    /\ emitted' = s.emitted
    /\ updated' = s.updated
    /\ created' = s.created
    /\ destroyed' = s.destroyed
    /\ scans' = s.scans
    /\ finds' = s.finds
    /\ batteryUpdated' = s.batteryUpdated
    /\ calls' = s.calls
    /\ result' = s.result
    /\ op' = [name |-> name, path |-> path]

\* The outcome s of a handler becomes the state; what the consumer holds
\* stays with the consumer.
\* The tray runs no handler.
TrayIdle ==
    /\ UNCHANGED << timeouts, hasInhibit, settings, monitors, internalMonitor >>
    /\ performed' = << >>

Install(s, name, path) ==
    /\ InstallEngine(s, name, path)
    /\ snapshot' = Deleted(snapshot, s.destroyed)
    /\ TrayIdle

Emit(s, ev) == [s EXCEPT !.emitted = Append(@, ev)]

\* ------------------------------------------------------------------------
\* Level facts.
\* ------------------------------------------------------------------------

\* IsDocked() asking UPower before logind.
IsDockedUPowerFirst(s) ==
    IF s.upValid THEN s.upDocked
    ELSE IF s.lgValid THEN s.lgDocked
    ELSE FALSE

IsDocked(s) ==
    IF s.lgValid THEN s.lgDocked
    ELSE IF s.upValid THEN s.upDocked
    ELSE FALSE

\* LidIsPresent() when the property read returns prop.
LidIsPresent(s, prop) == IF s.upValid THEN prop ELSE FALSE

\* LidIsClosed() when the property read returns prop.
LidIsClosed(s, prop) == IF s.upValid THEN prop ELSE FALSE

\* OnBattery() when the property read returns prop.
OnBattery(s, prop) == IF s.upValid THEN prop ELSE FALSE

\* The values a property can show to the successive reads of one handler.
\* Every read is a D-Bus round trip, and UPower may change the property
\* between two of them.  With UPower gone no read is made.
Reads(s) ==
    IF s.upValid THEN { <<a, b, c>> : a \in BOOLEAN, b \in BOOLEAN, c \in BOOLEAN }
    ELSE { <<FALSE, FALSE, FALSE>> }

\* The property as it stands, seen by all three reads.
SteadyReads(prop) == << prop, prop, prop >>

\* ------------------------------------------------------------------------
\* StateTracker: deviceChanged().
\* ------------------------------------------------------------------------

\* EdgeEvents with two independent tests in place of the guarded if / else if.
EdgeEventsUnguarded(was, first, second, rising, falling) ==
    IF was # first
    THEN (IF first THEN << Ev(rising) >> ELSE << >>)
         \o (IF ~second THEN << Ev(falling) >> ELSE << >>)
    ELSE << >>

\* The edge test of one fact: was is the cached value, first the value the
\* outer comparison reads, second the value the inner test reads (the inner
\* `if` reads it when was is false, the `else if` when was is true).
EdgeEvents(was, first, second, rising, falling) ==
    IF was # first
    THEN IF ~was /\ second THEN << Ev(rising) >>
         ELSE IF was /\ ~second THEN << Ev(falling) >>
         ELSE << >>
    ELSE << >>

\* deviceChanged announcing UpdatedDevices only when an edge fired.
deviceChangedOnEdgeOnly(s, lid, bat) ==
    LET l1 == LidIsClosed(s, lid[1])
        l2 == LidIsClosed(s, lid[2])
        b1 == OnBattery(s, bat[1])
        b2 == OnBattery(s, bat[2])
        edges == EdgeEvents(s.wasLidClosed, l1, l2, "LidClosed", "LidOpened")
                 \o EdgeEvents(s.wasOnBattery, b1, b2,
                               "SwitchedToBattery", "SwitchedToAC")
    IN  [s EXCEPT !.wasLidClosed = LidIsClosed(s, lid[3]),
                  !.wasOnBattery = OnBattery(s, bat[3]),
                  !.upLidClosed = IF s.upValid THEN lid[3] ELSE @,
                  !.upOnBattery = IF s.upValid THEN bat[3] ELSE @,
                  !.emitted = @ \o edges \o
                      (IF edges = << >> THEN << >> ELSE << Ev("UpdatedDevices") >>)]

\* deviceChanged() when the LidIsClosed property shows lid[1..3] and the
\* OnBattery property bat[1..3] to the handler's successive reads.
deviceChanged(s, lid, bat) ==
    LET l1 == LidIsClosed(s, lid[1])
        l2 == LidIsClosed(s, lid[2])
        l3 == LidIsClosed(s, lid[3])
        b1 == OnBattery(s, bat[1])
        b2 == OnBattery(s, bat[2])
        b3 == OnBattery(s, bat[3])
        lidEvents == EdgeEvents(s.wasLidClosed, l1, l2, "LidClosed", "LidOpened")
        batEvents == EdgeEvents(s.wasOnBattery, b1, b2,
                                "SwitchedToBattery", "SwitchedToAC")
    IN  [s EXCEPT !.wasLidClosed = l3,
                  !.wasOnBattery = b3,
                  !.upLidClosed = IF s.upValid THEN lid[3] ELSE @,
                  !.upOnBattery = IF s.upValid THEN bat[3] ELSE @,
                  !.emitted = @ \o lidEvents \o batEvents \o << Ev("UpdatedDevices") >>]

\* handleDeviceChanged(device): the slot behind a Device's deviceChanged
\* signal.
handleDeviceChanged(s, device, lid, bat) ==
    IF device = NoPath THEN s ELSE deviceChanged(s, lid, bat)

\* The PrepareForSuspend(suspend) event.
PrepareForSuspend(suspend) == [name |-> "PrepareForSuspend", path |-> << suspend >>]

\* handleResume() announcing a suspend.
handleResumeAsSuspend(s) == Emit(s, PrepareForSuspend(TRUE))

handleResume(s) == Emit(s, PrepareForSuspend(FALSE))

handleSuspend(s) == Emit(s, PrepareForSuspend(TRUE))

handlePrepareForSuspend(s, suspend) == Emit(s, PrepareForSuspend(suspend))

\* ------------------------------------------------------------------------
\* DeviceRegistry: find(), scan(), deviceAdded(), deviceRemoved().
\* ------------------------------------------------------------------------

\* QMap::take(k): the map without the key k.
Take(f, k) == [x \in DOMAIN f \ {k} |-> f[x]]

\* find(): the introspected children of UPower's devices node, each with
\* UPOWER_DEVICES put before its name; the empty list when the call fails.
\* The result is kept as a set: the list holds no path twice and scan()
\* and deviceRemoved() only ask what it contains.
find(s) ==
    { [state |-> [s EXCEPT !.finds = Append(@, found)], found |-> found] :
        found \in { s.upDevices, {} } }

\* Device::update() on the Device tracked as id: either the read fails and
\* the cached values stay, or the properties are replaced and the Device
\* emits deviceChanged(id), which runs handleDeviceChanged(id) at once.  The
\* refresh this triggers reads the level facts as they stand.
DeviceUpdateOutcomes(s, id) ==
    LET called == [s EXCEPT !.updated = @ \cup {id}]
    IN  {called} \cup
        { handleDeviceChanged(
              [called EXCEPT !.devices[id] = DeviceUpdate(@, props)],
              id, SteadyReads(s.upLidClosed), SteadyReads(s.upOnBattery)) :
            props \in DeviceProps }

RECURSIVE UpdateDevicesFrom(_, _)
UpdateDevicesFrom(states, i) ==
    IF i > Len(DevOrder) THEN states
    ELSE UpdateDevicesFrom(
             UNION { IF DevOrder[i] \in DOMAIN t.devices
                     THEN DeviceUpdateOutcomes(t, DevOrder[i])
                     ELSE {t} : t \in states },
             i + 1)

\* UpdateDevices(): update() on every tracked Device, in key order.
UpdateDevices(s) == UpdateDevicesFrom({s}, 1)

\* CreateFound without the devices.contains() test: a Device is built for
\* every found path and put in place of the tracked one.
CreateFoundAgain(s, found) ==
    { [s EXCEPT
         !.devices = [id \in DOMAIN s.devices \cup found |->
                        IF id \in found THEN NewDevice(props[id])
                        ELSE s.devices[id]],
         !.created = @ \cup found] :
        props \in [found -> DeviceProps] }

\* The loop of scan(): a new Device for every found path that is not a key
\* of devices.
CreateFound(s, found) ==
    LET new == found \ DOMAIN s.devices
    IN  { [s EXCEPT
             !.devices = [id \in DOMAIN s.devices \cup new |->
                            IF id \in new
                            THEN NewDevice(props[id])
                            ELSE s.devices[id]],
             !.created = @ \cup new] :
            props \in [new -> DeviceProps] }

\* scan() as Power::scanDevices has it, without the UpdateDevices() call.
scanWithoutUpdate(s) ==
    UNION { { Emit(c, Ev("UpdatedDevices")) : c \in CreateFound(f.state, f.found) } :
            f \in find([s EXCEPT !.scans = @ + 1]) }

\* scan() announcing the update only when it created a Device.
scanQuietIfUnchanged(s) ==
    UNION { UNION { { IF u.created = {} THEN u ELSE Emit(u, Ev("UpdatedDevices")) :
                        u \in UpdateDevices(c) } :
                    c \in CreateFound(f.state, f.found) } :
            f \in find([s EXCEPT !.scans = @ + 1]) }

scan(s) ==
    UNION { UNION { { Emit(u, Ev("UpdatedDevices")) : u \in UpdateDevices(c) } :
                    c \in CreateFound(f.state, f.found) } :
            f \in find([s EXCEPT !.scans = @ + 1]) }

\* deviceAdded() announcing only a path it does not track yet.
deviceAddedIfNew(s, path) ==
    IF ~s.upValid THEN {s}
    ELSE IF StartsWith(path, DBUS_JOBS) THEN {s}
    ELSE IF path \in DOMAIN s.devices THEN scan(s)
    ELSE scan(Emit(s, EvPath("DeviceWasAdded", path)))

\* deviceAdded() without the jobs-path filter.
deviceAddedUnfiltered(s, path) ==
    IF ~s.upValid THEN {s}
    ELSE scan(Emit(s, EvPath("DeviceWasAdded", path)))

deviceAdded(s, path) ==
    IF ~s.upValid THEN {s}
    ELSE IF StartsWith(path, DBUS_JOBS) THEN {s}
    ELSE scan(Emit(s, EvPath("DeviceWasAdded", path)))

\* Between the find() of deviceRemoved(path) and the one of its scan()
\* UPower may export path again (a removal racing with a re-add).
Relisted(s, path) == { s, [s EXCEPT !.upDevices = @ \cup {path}] }

\* deviceRemoved() trusting the signal: a tracked Device is deleted without
\* asking UPower whether it still lists the path.
deviceRemovedUnchecked(s, path) ==
    IF ~s.upValid THEN {s}
    ELSE LET deviceExists == path \in DOMAIN s.devices
         IN  IF StartsWith(path, DBUS_JOBS) THEN {s}
             ELSE IF deviceExists
             THEN UNION { UNION { scan(r) :
                                 r \in Relisted(
                                     Emit([f.state EXCEPT
                                             !.destroyed = @ \cup {path},
                                             !.devices = Take(@, path)],
                                          EvPath("DeviceWasRemoved", path)),
                                     path) } :
                          f \in find(s) }
             ELSE scan(s)

\* deviceRemoved() running its scan() in the stale case too, where UPower
\* still lists the tracked path.
deviceRemovedRescanStale(s, path) ==
    IF ~s.upValid THEN {s}
    ELSE LET deviceExists == path \in DOMAIN s.devices
         IN  IF StartsWith(path, DBUS_JOBS) THEN {s}
             ELSE IF deviceExists
             THEN UNION { IF path \in f.found THEN scan(f.state)
                          ELSE UNION { scan(r) :
                                 r \in Relisted(
                                     Emit([f.state EXCEPT
                                             !.destroyed = @ \cup {path},
                                             !.devices = Take(@, path)],
                                          EvPath("DeviceWasRemoved", path)),
                                     path) } :
                          f \in find(s) }
             ELSE scan(s)

\* deviceRemoved() with its scan() inside the deviceExists branch: a removal
\* signal for an untracked path does nothing.
deviceRemovedNoRescan(s, path) ==
    IF ~s.upValid THEN {s}
    ELSE LET deviceExists == path \in DOMAIN s.devices
         IN  IF StartsWith(path, DBUS_JOBS) THEN {s}
             ELSE IF deviceExists
             THEN UNION { IF path \in f.found THEN {f.state}
                          ELSE UNION { scan(r) :
                                 r \in Relisted(
                                     Emit([f.state EXCEPT
                                             !.destroyed = @ \cup {path},
                                             !.devices = Take(@, path)],
                                          EvPath("DeviceWasRemoved", path)),
                                     path) } :
                          f \in find(s) }
             ELSE {s}

deviceRemoved(s, path) ==
    IF ~s.upValid THEN {s}
    ELSE LET deviceExists == path \in DOMAIN s.devices
         IN  IF StartsWith(path, DBUS_JOBS) THEN {s}
             ELSE IF deviceExists
             THEN UNION { IF path \in f.found THEN {f.state}
                          ELSE UNION { scan(r) :
                                 r \in Relisted(
                                     Emit([f.state EXCEPT
                                             !.destroyed = @ \cup {path},
                                             !.devices = Take(@, path)],
                                          EvPath("DeviceWasRemoved", path)),
                                     path) } :
                          f \in find(s) }
             ELSE scan(s)

\* ------------------------------------------------------------------------
\* Aggregate queries: BatteryLeft(), TimeToEmpty(), TimeToFull().
\* ------------------------------------------------------------------------

\* The cached attribute values a tracked Device can hold: a line adapter,
\* two batteries, a battery without native path and an absent battery.
DeviceStates ==
    DeviceProps \cup
    { [isBattery |-> TRUE, isPresent |-> TRUE, nativePath |-> "BAT1",
       percentage |-> 60, timeToEmpty |-> 20, timeToFull |-> 10],
      [isBattery |-> TRUE, isPresent |-> TRUE, nativePath |-> "",
       percentage |-> 60, timeToEmpty |-> 20, timeToFull |-> 10],
      [isBattery |-> TRUE, isPresent |-> FALSE, nativePath |-> "BAT2",
       percentage |-> 40, timeToEmpty |-> 30, timeToFull |-> 10] }

\* The percentage / time values Device::updateBattery() can read.
BatteryReadings ==
    { [percentage |-> 40, timeToEmpty |-> 30, timeToFull |-> 0],
      [percentage |-> 60, timeToEmpty |-> 20, timeToFull |-> 10] }

\* Device::updateBattery() when the read succeeds: the percentage and time
\* fields are replaced, the other attributes stay.
DeviceUpdateBattery(dev, reading) ==
    [dev EXCEPT !.percentage = reading.percentage,
                !.timeToEmpty = reading.timeToEmpty,
                !.timeToFull = reading.timeToFull]

\* Device::updateBattery() on the Device tracked as id: either the read
\* fails and the cached values stay, or the battery fields are replaced.
\* It announces nothing.
DeviceUpdateBatteryOutcomes(s, id) ==
    LET called == [s EXCEPT !.batteryUpdated = @ \cup {id}]
    IN  {called} \cup
        { [called EXCEPT !.devices[id] = DeviceUpdateBattery(@, reading)] :
            reading \in BatteryReadings }

RECURSIVE UpdateBatteryFrom(_, _)
UpdateBatteryFrom(states, i) ==
    IF i > Len(DevOrder) THEN states
    ELSE UpdateBatteryFrom(
             UNION { IF DevOrder[i] \in DOMAIN t.devices
                        /\ t.devices[DevOrder[i]].isBattery
                     THEN DeviceUpdateBatteryOutcomes(t, DevOrder[i])
                     ELSE {t} : t \in states },
             i + 1)

\* UpdateBattery(): updateBattery() on every tracked Device that is a
\* battery, in key order.
UpdateBattery(s) == UpdateBatteryFrom({s}, 1)

\* A double (or integer) return value, kept exact as the quotient num / den.
\* The only quotient with den = 0 the engine forms is 0.0 / 0, a NaN.
Double(num, den) == [num |-> num, den |-> den]

\* The qualifying test of the three aggregates, without its nativePath part.
QualifiesWithoutNativePath(dev) == dev.isBattery /\ dev.isPresent

\* The test the three aggregates apply to each Device.
Qualifies(dev) == dev.isBattery /\ dev.isPresent /\ dev.nativePath # ""

\* The loop of an aggregate over the map devs from key i on: total is the
\* running sum of field over the qualifying Devices, count their number.
RECURSIVE Accumulate(_, _, _, _, _)
Accumulate(devs, i, field, total, count) ==
    IF i > Len(DevOrder) THEN [total |-> total, count |-> count]
    ELSE IF DevOrder[i] \in DOMAIN devs /\ Qualifies(devs[DevOrder[i]])
    THEN Accumulate(devs, i + 1, field,
                    total + devs[DevOrder[i]][field], count + 1)
    ELSE Accumulate(devs, i + 1, field, total, count)

\* The aggregation of Power::batteryLeft(): the sum is returned as it is.
BatteryLeftSum(devs) ==
    Double(Accumulate(devs, 1, "percentage", 0, 0).total, 1)

\* The aggregation of BatteryLeft(): batteryLeft / batteries.
BatteryLeftOver(devs) ==
    LET acc == Accumulate(devs, 1, "percentage", 0, 0)
    IN  Double(acc.total, acc.count)

\* The OnBattery() call at the head of a query.  On a null upower handle the
\* call is undefined: the process dies, or the call yields either answer.
QueryOnBattery(s) ==
    IF s.upower = "null" THEN BOOLEAN ELSE { OnBattery(s, s.upOnBattery) }

QueryDies(s) ==
    IF s.upower = "null" THEN { [s EXCEPT !.crashed = TRUE] } ELSE {}

\* `if (OnBattery()) { UpdateBattery(); }`
SweepIfOnBattery(s) ==
    UNION { IF onBat THEN UpdateBattery(s) ELSE {s} : onBat \in QueryOnBattery(s) }

\* BatteryLeft() sweeping the batteries whatever the power source is.
BatteryLeftAlwaysSweeps(s) ==
    QueryDies(s) \cup
    { [u EXCEPT !.result = BatteryLeftOver(u.devices)] : u \in UpdateBattery(s) }

BatteryLeft(s) ==
    QueryDies(s) \cup
    { [u EXCEPT !.result = BatteryLeftOver(u.devices)] : u \in SweepIfOnBattery(s) }

TimeToEmpty(s) ==
    QueryDies(s) \cup
    { [u EXCEPT !.result =
          Double(Accumulate(u.devices, 1, "timeToEmpty", 0, 0).total, 1)] :
        u \in SweepIfOnBattery(s) }

TimeToFull(s) ==
    QueryDies(s) \cup
    { [u EXCEPT !.result =
          Double(Accumulate(u.devices, 1, "timeToFull", 0, 0).total, 1)] :
        u \in SweepIfOnBattery(s) }

\* HasBattery() counting only the Devices the aggregates count.
HasBatteryQualifying(s, i) ==
    [s EXCEPT !.result =
        [bool |-> \E id \in DOMAIN s.devices : Qualifies(s.devices[id])]]

\* HasBattery(): the loop over the map from key i on returns true at the
\* first Device with isBattery, false at the end.
RECURSIVE HasBattery(_, _)
HasBattery(s, i) ==
    IF i > Len(DevOrder) THEN [s EXCEPT !.result = [bool |-> FALSE]]
    ELSE IF DevOrder[i] \in DOMAIN s.devices /\ s.devices[DevOrder[i]].isBattery
    THEN [s EXCEPT !.result = [bool |-> TRUE]]
    ELSE HasBattery(s, i + 1)

\* ------------------------------------------------------------------------
\* InhibitorLedger: the screen-saver and power-management inhibitor tables.
\* ------------------------------------------------------------------------

\* The cookies (quint32), application names and reasons of inhibit requests.
Cookies == 1..MaxCookie

Apps == { "app", "vlc" }

Reasons == { "playing" }

\* QMap::operator[](k) = v: insert, or replace the value of k.
Put(f, k, v) == [x \in DOMAIN f \cup {k} |-> IF x = k THEN v ELSE f[x]]

\* handleNewInhibitScreenSaver that keeps the entry a cookie already has.
handleNewInhibitKeepFirst(s, application, reason, cookie) ==
    Emit([s EXCEPT !.ssInhibitors =
             IF cookie \in DOMAIN @ THEN @ ELSE Put(@, cookie, application)],
         Ev("UpdatedInhibitors"))

handleNewInhibitScreenSaver(s, application, reason, cookie) ==
    Emit([s EXCEPT !.ssInhibitors = Put(@, cookie, application)],
         Ev("UpdatedInhibitors"))

handleNewInhibitPowerManagement(s, application, reason, cookie) ==
    Emit([s EXCEPT !.pmInhibitors = Put(@, cookie, application)],
         Ev("UpdatedInhibitors"))

\* handleDelInhibitScreenSaver announcing the update for an absent cookie too.
handleDelInhibitAlwaysEmits(s, cookie) ==
    Emit([s EXCEPT !.ssInhibitors =
             IF cookie \in DOMAIN @ THEN Take(@, cookie) ELSE @],
         Ev("UpdatedInhibitors"))

handleDelInhibitScreenSaver(s, cookie) ==
    IF cookie \in DOMAIN s.ssInhibitors
    THEN Emit([s EXCEPT !.ssInhibitors = Take(@, cookie)],
              Ev("UpdatedInhibitors"))
    ELSE s

\* handleDelInhibitPowerManagement over one table shared by both services:
\* the cookie is dropped from the screen-saver table as well.
handleDelInhibitBothTables(s, cookie) ==
    IF cookie \in DOMAIN s.pmInhibitors
    THEN Emit([s EXCEPT !.pmInhibitors = Take(@, cookie),
                        !.ssInhibitors =
                            IF cookie \in DOMAIN @ THEN Take(@, cookie) ELSE @],
              Ev("UpdatedInhibitors"))
    ELSE s

handleDelInhibitPowerManagement(s, cookie) ==
    IF cookie \in DOMAIN s.pmInhibitors
    THEN Emit([s EXCEPT !.pmInhibitors = Take(@, cookie)],
              Ev("UpdatedInhibitors"))
    ELSE s

\* QMapIterator over a table: the values in ascending key order.
RECURSIVE ValuesFrom(_, _)
ValuesFrom(f, k) ==
    IF k > MaxCookie THEN << >>
    ELSE (IF k \in DOMAIN f THEN << f[k] >> ELSE << >>) \o ValuesFrom(f, k + 1)

ScreenSaverInhibitors(s) == ValuesFrom(s.ssInhibitors, 1)

PowerManagementInhibitors(s) == ValuesFrom(s.pmInhibitors, 1)

\* ------------------------------------------------------------------------
\* BackendSelector: capability probes and actions.
\* ------------------------------------------------------------------------

\* PKBackend
PKLogind == "logind"

PKConsoleKit == "consolekit"

PKUPower == "upower"

\* PKMethod: the capability probes, each named by the method it calls.
PKCanRestart == "CanRestart"

PKCanPowerOff == "CanPowerOff"

PKCanSuspend == "CanSuspend"

PKCanHibernate == "CanHibernate"

PKCanHybridSleep == "CanHybridSleep"

PKSuspendAllowed == "SuspendAllowed"

PKHibernateAllowed == "HibernateAllowed"

\* PKAction: the actions, each named by the method it calls.
PKRestartAction == "Restart"

PKPowerOffAction == "PowerOff"

PKSuspendAction == "Suspend"

PKHibernateAction == "Hibernate"

PKHybridSleepAction == "HybridSleep"

\* The strings of def.h.
DBUS_OK_REPLY == "yes"

PK_NO_BACKEND == "no backend"

DBUS_FAILED_CONN == "failed connection"

\* A QVariant holding a string or a bool.
StringVariant(str) == [type |-> "string", str |-> str, bool |-> FALSE]

BoolVariant(b) == [type |-> "bool", str |-> "", bool |-> b]

\* QVariant::toString()
toString(v) ==
    IF v.type = "string" THEN v.str
    ELSE IF v.bool THEN "true" ELSE "false"

\* QVariant::toBool(): a bool is itself; a string is true unless it is
\* empty, "0" or "false".
toBool(v) ==
    IF v.type = "bool" THEN v.bool
    ELSE v.str \notin { "", "0", "false" }

\* The replies a backend gives to a method call: a value, or an error whose
\* text is the only argument.
Replies ==
    { [first |-> StringVariant(str), errorMessage |-> ""] :
        str \in { "yes", "no", "na", "challenge" } }
    \cup { [first |-> BoolVariant(b), errorMessage |-> ""] : b \in BOOLEAN }
    \cup { [first |-> StringVariant("denied"), errorMessage |-> "denied"] }

\* A boolean and a string return value.
Bool(b) == [bool |-> b]

Str(str) == [str |-> str]

\* availableService(): a fresh interface on the service is valid.
HasLogind(s) == s.lgValid

HasConsoleKit(s) == s.ckValid

HasUPower(s) == s.upValid

\* The bus as a call on backend finds it: the interface built for the call
\* is valid, or the service has gone since it was chosen.
Found(s, backend, valid) ==
    IF valid THEN s
    ELSE IF backend = PKLogind THEN [s EXCEPT !.lgValid = FALSE]
    ELSE IF backend = PKConsoleKit THEN [s EXCEPT !.ckValid = FALSE]
    ELSE [s EXCEPT !.upValid = FALSE]

\* The value availableAction() returns when the interface it builds is
\* valid or not and the backend's reply to the probe is reply.
availableActionResult(valid, reply) ==
    IF ~valid THEN FALSE
    ELSE IF toString(reply.first) = DBUS_OK_REPLY THEN TRUE
    ELSE IF reply.errorMessage # "" THEN FALSE
    ELSE toBool(reply.first)

\* availableAction(method, backend)
availableAction(s, method, backend, valid, reply) ==
    LET t == Found(s, backend, valid)
    IN  [t EXCEPT
           !.calls = IF valid
                     THEN Append(@, [backend |-> backend, method |-> method])
                     ELSE @,
           !.result = Bool(availableActionResult(valid, reply))]

\* executeAction(action, backend)
executeAction(s, action, backend, valid, reply) ==
    LET t == Found(s, backend, valid)
    IN  IF ~valid THEN [t EXCEPT !.result = Str(DBUS_FAILED_CONN)]
        ELSE [t EXCEPT
                !.calls = Append(@, [backend |-> backend, method |-> action]),
                !.result = Str(reply.errorMessage)]

CanRestart(s, valid, reply) ==
    IF HasLogind(s) THEN availableAction(s, PKCanRestart, PKLogind, valid, reply)
    ELSE IF HasConsoleKit(s)
    THEN availableAction(s, PKCanRestart, PKConsoleKit, valid, reply)
    ELSE [s EXCEPT !.result = Bool(FALSE)]

CanPowerOff(s, valid, reply) ==
    IF HasLogind(s) THEN availableAction(s, PKCanPowerOff, PKLogind, valid, reply)
    ELSE IF HasConsoleKit(s)
    THEN availableAction(s, PKCanPowerOff, PKConsoleKit, valid, reply)
    ELSE [s EXCEPT !.result = Bool(FALSE)]

CanSuspend(s, valid, reply) ==
    IF HasLogind(s) THEN availableAction(s, PKCanSuspend, PKLogind, valid, reply)
    ELSE IF HasConsoleKit(s)
    THEN availableAction(s, PKCanSuspend, PKConsoleKit, valid, reply)
    ELSE IF HasUPower(s)
    THEN availableAction(s, PKSuspendAllowed, PKUPower, valid, reply)
    ELSE [s EXCEPT !.result = Bool(FALSE)]

CanHibernate(s, valid, reply) ==
    IF HasLogind(s) THEN availableAction(s, PKCanHibernate, PKLogind, valid, reply)
    ELSE IF HasConsoleKit(s)
    THEN availableAction(s, PKCanHibernate, PKConsoleKit, valid, reply)
    ELSE IF HasUPower(s)
    THEN availableAction(s, PKHibernateAllowed, PKUPower, valid, reply)
    ELSE [s EXCEPT !.result = Bool(FALSE)]

CanHybridSleep(s, valid, reply) ==
    IF HasLogind(s) THEN availableAction(s, PKCanHybridSleep, PKLogind, valid, reply)
    ELSE IF HasConsoleKit(s)
    THEN availableAction(s, PKCanHybridSleep, PKConsoleKit, valid, reply)
    ELSE [s EXCEPT !.result = Bool(FALSE)]

\* Restart() returning an empty string when it finds no backend.
RestartSilent(s, valid, reply) ==
    IF HasLogind(s) THEN executeAction(s, PKRestartAction, PKLogind, valid, reply)
    ELSE IF HasConsoleKit(s)
    THEN executeAction(s, PKRestartAction, PKConsoleKit, valid, reply)
    ELSE [s EXCEPT !.result = Str("")]

Restart(s, valid, reply) ==
    IF HasLogind(s) THEN executeAction(s, PKRestartAction, PKLogind, valid, reply)
    ELSE IF HasConsoleKit(s)
    THEN executeAction(s, PKRestartAction, PKConsoleKit, valid, reply)
    ELSE [s EXCEPT !.result = Str(PK_NO_BACKEND)]

PowerOff(s, valid, reply) ==
    IF HasLogind(s) THEN executeAction(s, PKPowerOffAction, PKLogind, valid, reply)
    ELSE IF HasConsoleKit(s)
    THEN executeAction(s, PKPowerOffAction, PKConsoleKit, valid, reply)
    ELSE [s EXCEPT !.result = Str(PK_NO_BACKEND)]

Suspend(s, valid, reply) ==
    IF HasLogind(s) THEN executeAction(s, PKSuspendAction, PKLogind, valid, reply)
    ELSE IF HasConsoleKit(s)
    THEN executeAction(s, PKSuspendAction, PKConsoleKit, valid, reply)
    ELSE IF HasUPower(s)
    THEN executeAction(s, PKSuspendAction, PKUPower, valid, reply)
    ELSE [s EXCEPT !.result = Str(PK_NO_BACKEND)]

Hibernate(s, valid, reply) ==
    IF HasLogind(s) THEN executeAction(s, PKHibernateAction, PKLogind, valid, reply)
    ELSE IF HasConsoleKit(s)
    THEN executeAction(s, PKHibernateAction, PKConsoleKit, valid, reply)
    ELSE IF HasUPower(s)
    THEN executeAction(s, PKHibernateAction, PKUPower, valid, reply)
    ELSE [s EXCEPT !.result = Str(PK_NO_BACKEND)]

HybridSleep(s, valid, reply) ==
    IF HasLogind(s) THEN executeAction(s, PKHybridSleepAction, PKLogind, valid, reply)
    ELSE IF HasConsoleKit(s)
    THEN executeAction(s, PKHybridSleepAction, PKConsoleKit, valid, reply)
    ELSE [s EXCEPT !.result = Str(PK_NO_BACKEND)]

\* ------------------------------------------------------------------------
\* ConnectionSupervisor: setup(), check(), the constructor.
\* ------------------------------------------------------------------------

\* QDBusConnection::connect() adding a hook whether or not it is there.
DBusConnectAgain(n) == n + 1

\* QDBusConnection::connect(): the bus keeps one hook per (signal, receiver,
\* slot) and refuses a second one, so a repeated connect() changes nothing.
DBusConnect(n) == IF n = 0 THEN 1 ELSE n

\* `if (upower == NULL) { upower = new QDBusInterface(...); }`
NewInterface(handle) == IF handle = "null" THEN "iface" ELSE handle

setup(s) ==
    IF s.busConnected
    THEN scan([s EXCEPT !.hooks = DBusConnect(@),
                        !.upower = NewInterface(@),
                        !.logind = NewInterface(@)])
    ELSE {s}

\* The bus as the next isConnected() finds it, when the last one found it
\* down: still down, or up by now.
Reconnected(s) == { s, [s EXCEPT !.busConnected = TRUE] }

\* check() running setup() on every tick.
checkAlwaysSetup(s) == setup(s)

\* check() calls setup() when it finds the bus down, and setup() asks the
\* bus again.  On a connected bus check() calls upower->isValid(); with
\* upower still null that is undefined: the process dies, or the call
\* yields either answer.
check(s) ==
    IF ~s.busConnected THEN UNION { setup(t) : t \in Reconnected(s) }
    ELSE IF s.upower = "null"
    THEN { [s EXCEPT !.crashed = TRUE], s } \cup scan(s)
    ELSE IF ~s.upValid THEN scan(s)
    ELSE {s}

\* PowerKit::PowerKit(): the members' initial values, then setup().
PowerKit(env) ==
    setup([busConnected |-> env.busConnected, upValid |-> env.upValid,
           lgValid |-> env.lgValid, ckValid |-> env.ckValid,
           upLidClosed |-> env.upLidClosed,
           upOnBattery |-> env.upOnBattery, upDocked |-> env.upDocked,
           lgDocked |-> env.lgDocked, upDevices |-> env.upDevices,
           upower |-> "null", logind |-> "null", hooks |-> 0,
           devices |-> << >>, wasDocked |-> FALSE, wasLidClosed |-> FALSE,
           wasOnBattery |-> FALSE, ssInhibitors |-> << >>,
           pmInhibitors |-> << >>, crashed |-> FALSE, emitted |-> << >>,
           updated |-> {}, created |-> {}, destroyed |-> {}, scans |-> 0,
           finds |-> << >>, batteryUpdated |-> {}, calls |-> << >>,
           result |-> NoResult])

\* The states the bus and its services can be in.
Envs ==
    [busConnected : BOOLEAN, upValid : BOOLEAN, lgValid : BOOLEAN,
     ckValid : BOOLEAN, upLidClosed : BOOLEAN, upOnBattery : BOOLEAN, upDocked : BOOLEAN,
     lgDocked : BOOLEAN, upDevices : SUBSET DevIds]

\* ------------------------------------------------------------------------
\* The tray: settings, monitors, the idle tick and the lid handler.
\* ------------------------------------------------------------------------

\* The lid actions.
lidNone == "lidNone"

lidLock == "lidLock"

lidSleep == "lidSleep"

lidHibernate == "lidHibernate"

lidShutdown == "lidShutdown"

\* The auto-suspend actions.
suspendNone == "suspendNone"

suspendSleep == "suspendSleep"

suspendHibernate == "suspendHibernate"

suspendShutdown == "suspendShutdown"

\* The members as the constructor's initialiser list sets them.  The
\* minutes of AUTO_SLEEP_BATTERY are scaled down to the ticks followed.
DefaultSettings ==
    [lidActionBattery |-> lidSleep, lidActionAC |-> lidLock,
     autoSuspendBattery |-> 2, autoSuspendAC |-> 0,
     autoSuspendBatteryAction |-> suspendSleep,
     autoSuspendACAction |-> suspendNone,
     disableLidOnExternalMonitors |-> TRUE]

\* The values loadSettings() can find in the configuration: the lid part or
\* the auto-suspend part differs from the defaults.
Settings ==
    { [DefaultSettings EXCEPT !.lidActionBattery = b, !.lidActionAC = a,
                              !.disableLidOnExternalMonitors = d] :
        b \in { lidNone, lidSleep, lidShutdown },
        a \in { lidLock, lidHibernate },
        d \in BOOLEAN }
    \cup
    { [DefaultSettings EXCEPT !.autoSuspendBattery = tb, !.autoSuspendAC = ta,
                              !.autoSuspendBatteryAction = ab,
                              !.autoSuspendACAction = aa] :
        tb \in { 0, 2 }, ta \in { 0, 1 },
        ab \in { suspendNone, suspendSleep },
        aa \in { suspendHibernate, suspendShutdown } }

\* The displays: the internal panel, an external output, a virtual one.
VIRTUAL_MONITOR == << "VIRTUAL" >>

InternalDisplay == << "LVDS", "1" >>

Displays == { InternalDisplay, << "HDMI", "1" >>, << "VIRTUAL", "1" >> }

\* SysTray::SysTray(): the members' initial values; the configuration
\* holds no valid entry, no display has been reported yet.
SysTray ==
    /\ timeouts = 0
    /\ hasInhibit = FALSE
    /\ settings = DefaultSettings
    /\ monitors = << >>
    /\ internalMonitor = << >>
    /\ performed = << >>

\* The tray's members as a record, the form its handlers work on.
TrayCur ==
    [timeouts |-> timeouts, settings |-> settings, monitors |-> monitors,
     internalMonitor |-> internalMonitor, performed |-> << >>]

\* The tray's members become the record t; the engine is as it was.
InstallTray(t, name, path) ==
    /\ timeouts' = t.timeouts
    /\ settings' = t.settings
    /\ monitors' = t.monitors
    /\ internalMonitor' = t.internalMonitor
    /\ performed' = t.performed
    /\ InstallEngine(Begin(Cur), name, path)
    /\ snapshot' = snapshot

\* xIdle(): the minutes part of the idle time idle, given in milliseconds.
xIdle(idle) ==
    LET hours == idle \div (1000 * 60 * 60)
        minutes == (idle - (hours * 1000 * 60 * 60)) \div (1000 * 60)
    IN  minutes

\* The idle times the X server can report, in milliseconds: none, one
\* minute, two minutes, an hour and a minute.
IdleTimes == { 0, 60000, 120000, 3660000 }

\* The switch of timeout() over the auto-suspend action.
SuspendCalls(action) ==
    IF action = suspendSleep THEN << "sleep" >>
    ELSE IF action = suspendHibernate THEN << "hibernate" >>
    ELSE IF action = suspendShutdown THEN << "shutdown" >>
    ELSE << >>

\* timeout() without the test of pm->HasInhibit().
timeoutIgnoresInhibit(t, onBattery, idle, inhibit) ==
    LET autoSuspend == IF onBattery THEN t.settings.autoSuspendBattery
                       ELSE t.settings.autoSuspendAC
        autoSuspendAction == IF onBattery THEN t.settings.autoSuspendBatteryAction
                             ELSE t.settings.autoSuspendACAction
        doSuspend == /\ autoSuspend > 0
                     /\ t.timeouts >= autoSuspend
                     /\ xIdle(idle) >= autoSuspend
    IN  IF ~doSuspend THEN [t EXCEPT !.timeouts = @ + 1]
        ELSE [t EXCEPT !.timeouts = 0,
                       !.performed = SuspendCalls(autoSuspendAction)]

\* timeout() when man->onBattery() returns onBattery, the X server reports
\* the idle time idle and pm->HasInhibit() returns inhibit.
timeout(t, onBattery, idle, inhibit) ==
    LET autoSuspend == IF onBattery THEN t.settings.autoSuspendBattery
                       ELSE t.settings.autoSuspendAC
        autoSuspendAction == IF onBattery THEN t.settings.autoSuspendBatteryAction
                             ELSE t.settings.autoSuspendACAction
        doSuspend == /\ autoSuspend > 0
                     /\ t.timeouts >= autoSuspend
                     /\ xIdle(idle) >= autoSuspend
                     /\ ~inhibit
    IN  IF ~doSuspend THEN [t EXCEPT !.timeouts = @ + 1]
        ELSE [t EXCEPT !.timeouts = 0,
                       !.performed = SuspendCalls(autoSuspendAction)]

resetTimer(t) == [t EXCEPT !.timeouts = 0]

handleHasInhibitChanged(t, has_inhibit) ==
    IF has_inhibit THEN resetTimer(t) ELSE t

\* QMap::operator[] on a non-const map: a missing key is inserted with the
\* default value.
Subscript(map, key) ==
    IF key \in DOMAIN map THEN map
    ELSE [k \in DOMAIN map \cup {key} |-> IF k = key THEN FALSE ELSE map[k]]

handleDisplay(t, display, connected) ==
    LET read == Subscript(t.monitors, display)
    IN  IF read[display] = connected THEN [t EXCEPT !.monitors = read]
        ELSE [t EXCEPT !.monitors = [read EXCEPT ![display] = connected]]

handleFoundDisplays(t, displays) == [t EXCEPT !.monitors = displays]

setInternalMonitor(t) == [t EXCEPT !.internalMonitor = InternalDisplay]

\* The loop of externalMonitorIsConnected() over the map.
externalMonitorIsConnected(t) ==
    \E key \in DOMAIN t.monitors :
        /\ key # t.internalMonitor
        /\ ~StartsWith(key, VIRTUAL_MONITOR)
        /\ t.monitors[key]

\* The switch of handleClosedLid() over the lid action.
LidCalls(type) ==
    IF type = lidLock THEN << "lockScreen" >>
    ELSE IF type = lidSleep THEN << "sleep" >>
    ELSE IF type = lidHibernate THEN << "hibernate" >>
    ELSE IF type = lidShutdown THEN << "shutdown" >>
    ELSE << >>

\* handleClosedLid() acting whatever monitors are connected.
handleClosedLidAnyMonitor(t, onBattery) ==
    LET type == IF onBattery THEN t.settings.lidActionBattery
                ELSE t.settings.lidActionAC
    IN  [t EXCEPT !.performed = LidCalls(type)]

\* handleClosedLid() when man->onBattery() returns onBattery.
handleClosedLid(t, onBattery) ==
    LET type == IF onBattery THEN t.settings.lidActionBattery
                ELSE t.settings.lidActionAC
    IN  IF t.settings.disableLidOnExternalMonitors /\ externalMonitorIsConnected(t)
        THEN t
        ELSE [t EXCEPT !.performed = LidCalls(type)]

loadSettings(t, conf) == [t EXCEPT !.settings = conf]

\* ------------------------------------------------------------------------
\* Initial states and actions.
\* ------------------------------------------------------------------------

Init ==
    \E env \in Envs : \E s \in PowerKit(env) : 
        /\ busConnected = s.busConnected
        /\ upValid = s.upValid
        /\ lgValid = s.lgValid
        /\ ckValid = s.ckValid
        /\ upLidClosed = s.upLidClosed
        /\ upOnBattery = s.upOnBattery
        /\ upDocked = s.upDocked
        /\ lgDocked = s.lgDocked
        /\ upDevices = s.upDevices
        /\ upower = s.upower
        /\ logind = s.logind
        /\ hooks = s.hooks
        /\ devices = s.devices
        /\ wasDocked = s.wasDocked
        /\ wasLidClosed = s.wasLidClosed
        /\ wasOnBattery = s.wasOnBattery
        /\ ssInhibitors = s.ssInhibitors
        /\ pmInhibitors = s.pmInhibitors
        /\ crashed = s.crashed
        /\ emitted = s.emitted
        /\ updated = s.updated
        /\ created = s.created
        /\ destroyed = s.destroyed
        /\ scans = s.scans
        /\ finds = s.finds
        /\ batteryUpdated = s.batteryUpdated
        /\ calls = s.calls
        /\ result = s.result
        /\ snapshot = << >>
        /\ op = [name |-> "PowerKit", path |-> NoPath]
        /\ SysTray

\* A signal of the bus reaches its slot only through a hook of setup().
Delivers == hooks > 0 /\ busConnected /\ ~crashed

\* --- the environment ---

\* A step of the environment runs no handler.
NoHandler ==
    /\ op' = [name |-> "environment", path |-> NoPath]
    /\ emitted' = << >>
    /\ updated' = {}
    /\ created' = {}
    /\ destroyed' = {}
    /\ scans' = 0
    /\ finds' = << >>
    /\ batteryUpdated' = {}
    /\ calls' = << >>
    /\ result' = NoResult
    /\ snapshot' = snapshot
    /\ TrayIdle

\* The bus connection drops or comes up.
BusChange ==
    /\ busConnected' = ~busConnected
    /\ UNCHANGED << ckValid, upValid, lgValid, upLidClosed, upOnBattery, upDocked,
                    lgDocked, upDevices, upower, logind, hooks, devices,
                    wasDocked, wasLidClosed, wasOnBattery, ssInhibitors, pmInhibitors,
                    crashed >>
    /\ NoHandler

\* The UPower service goes away or comes back.
UPowerServiceChange ==
    /\ upValid' = ~upValid
    /\ UNCHANGED << ckValid, busConnected, lgValid, upLidClosed, upOnBattery, upDocked,
                    lgDocked, upDevices, upower, logind, hooks, devices,
                    wasDocked, wasLidClosed, wasOnBattery, ssInhibitors, pmInhibitors,
                    crashed >>
    /\ NoHandler

\* The logind service goes away or comes back.
LogindServiceChange ==
    /\ lgValid' = ~lgValid
    /\ UNCHANGED << ckValid, busConnected, upValid, upLidClosed, upOnBattery, upDocked,
                    lgDocked, upDevices, upower, logind, hooks, devices,
                    wasDocked, wasLidClosed, wasOnBattery, ssInhibitors, pmInhibitors,
                    crashed >>
    /\ NoHandler

\* The ConsoleKit service goes away or comes back.
ConsoleKitServiceChange ==
    /\ ckValid' = ~ckValid
    /\ UNCHANGED << busConnected, upValid, lgValid, upLidClosed, upOnBattery,
                    upDocked, lgDocked, upDevices, upower, logind, hooks,
                    devices, wasDocked, wasLidClosed, wasOnBattery,
                    ssInhibitors, pmInhibitors, crashed >>
    /\ NoHandler

\* The lid closes or opens, the power source changes.
LevelChange ==
    /\ \E lid \in BOOLEAN, bat \in BOOLEAN :
          /\ << lid, bat >> # << upLidClosed, upOnBattery >>
          /\ upLidClosed' = lid
          /\ upOnBattery' = bat
    /\ UNCHANGED << ckValid, busConnected, upValid, lgValid, upDocked, lgDocked,
                    upDevices, upower, logind, hooks, devices, wasDocked,
                    wasLidClosed, wasOnBattery, ssInhibitors, pmInhibitors,
                    crashed >>
    /\ NoHandler

\* The machine is docked or undocked.
DockChange ==
    /\ \E up \in BOOLEAN, lg \in BOOLEAN :
          /\ << up, lg >> # << upDocked, lgDocked >>
          /\ upDocked' = up
          /\ lgDocked' = lg
    /\ UNCHANGED << ckValid, busConnected, upValid, lgValid, upLidClosed, upOnBattery,
                    upDevices, upower, logind, hooks, devices, wasDocked,
                    wasLidClosed, wasOnBattery, ssInhibitors, pmInhibitors,
                    crashed >>
    /\ NoHandler

\* UPower exports another set of devices.
DeviceListChange ==
    /\ \E list \in SUBSET DevIds :
          /\ list # upDevices
          /\ upDevices' = list
    /\ UNCHANGED << ckValid, busConnected, upValid, lgValid, upLidClosed, upOnBattery,
                    upDocked, lgDocked, upower, logind, hooks, devices,
                    wasDocked, wasLidClosed, wasOnBattery, ssInhibitors, pmInhibitors,
                    crashed >>
    /\ NoHandler

\* --- the engine's handlers ---

\* UPower's Changed / DeviceChanged signal: deviceChanged().
DeviceChanged ==
    /\ Delivers
    /\ \E lid \in Reads(Cur), bat \in Reads(Cur) :
          Install(deviceChanged(Begin(Cur), lid, bat), "deviceChanged", NoPath)

\* UPower's DeviceAdded signal: deviceAdded(path).
DeviceAdded ==
    /\ Delivers
    /\ \E path \in SignalPaths : \E s \in deviceAdded(Begin(Cur), path) :
          Install(s, "deviceAdded", path)

\* UPower's DeviceRemoved signal: deviceRemoved(path).
DeviceRemoved ==
    /\ Delivers
    /\ \E path \in SignalPaths : \E s \in deviceRemoved(Begin(Cur), path) :
          Install(s, "deviceRemoved", path)

\* The timer: check().
Check ==
    /\ ~crashed
    /\ \E s \in check(Begin(Cur)) : Install(s, "check", NoPath)

\* UPower's NotifyResume signal: handleResume().
NotifyResume ==
    /\ Delivers
    /\ upValid
    /\ Install(handleResume(Begin(Cur)), "handleResume", NoPath)

\* UPower's NotifySleep signal: handleSuspend().
NotifySleep ==
    /\ Delivers
    /\ upValid
    /\ Install(handleSuspend(Begin(Cur)), "handleSuspend", NoPath)

\* The PrepareForSleep(suspend) signal of logind or ConsoleKit:
\* handlePrepareForSuspend(suspend).
PrepareForSleep ==
    /\ Delivers
    /\ lgValid \/ ckValid
    /\ \E suspend \in BOOLEAN :
          Install(handlePrepareForSuspend(Begin(Cur), suspend),
                  "handlePrepareForSuspend", << suspend >>)

\* A consumer asks for HasBattery().
QueryHasBattery ==
    /\ ~crashed
    /\ Install(HasBattery(Begin(Cur), 1), "HasBattery", NoPath)

\* A consumer calls getDevices(): it gets a copy of the map, whose values are
\* the engine's own Device pointers.
GetDevices ==
    /\ ~crashed
    /\ InstallEngine(Begin(Cur), "getDevices", NoPath)
    /\ snapshot' = [id \in DOMAIN devices |-> "live"]
    /\ TrayIdle

\* A consumer asks for BatteryLeft().
QueryBatteryLeft ==
    /\ ~crashed
    /\ \E s \in BatteryLeft(Begin(Cur)) : Install(s, "BatteryLeft", NoPath)

\* A consumer asks for TimeToEmpty().
QueryTimeToEmpty ==
    /\ ~crashed
    /\ \E s \in TimeToEmpty(Begin(Cur)) : Install(s, "TimeToEmpty", NoPath)

\* A consumer asks for TimeToFull().
QueryTimeToFull ==
    /\ ~crashed
    /\ \E s \in TimeToFull(Begin(Cur)) : Install(s, "TimeToFull", NoPath)

\* The screen-saver service passes on an Inhibit request.
NewInhibitScreenSaver ==
    /\ ~crashed
    /\ \E application \in Apps, reason \in Reasons, cookie \in Cookies :
          Install(handleNewInhibitScreenSaver(Begin(Cur), application, reason, cookie),
                  "handleNewInhibitScreenSaver", << application, cookie >>)

\* The power-management service passes on an Inhibit request.
NewInhibitPowerManagement ==
    /\ ~crashed
    /\ \E application \in Apps, reason \in Reasons, cookie \in Cookies :
          Install(handleNewInhibitPowerManagement(Begin(Cur), application, reason, cookie),
                  "handleNewInhibitPowerManagement", << application, cookie >>)

\* The screen-saver service passes on an UnInhibit request.
DelInhibitScreenSaver ==
    /\ ~crashed
    /\ \E cookie \in Cookies :
          Install(handleDelInhibitScreenSaver(Begin(Cur), cookie),
                  "handleDelInhibitScreenSaver", << cookie >>)

\* The power-management service passes on an UnInhibit request.
DelInhibitPowerManagement ==
    /\ ~crashed
    /\ \E cookie \in Cookies :
          Install(handleDelInhibitPowerManagement(Begin(Cur), cookie),
                  "handleDelInhibitPowerManagement", << cookie >>)

\* What a level-fact query hands back when it starts by calling isValid()
\* through handle and the fallback yields value: through a null handle the
\* call is undefined, it may end the process or return anything.
Dereference(s, handle, value) ==
    IF handle = "null"
    THEN { [s EXCEPT !.crashed = TRUE] }
         \cup { [s EXCEPT !.result = [bool |-> b]] : b \in BOOLEAN }
    ELSE { [s EXCEPT !.result = [bool |-> value]] }

\* A consumer calls IsDocked(): upower is reached only past an invalid logind.
CallIsDocked ==
    /\ ~crashed
    /\ LET handle == IF logind = "null" \/ lgValid THEN logind ELSE upower
       IN  \E s \in Dereference(Begin(Cur), handle, IsDocked(Cur)) :
               Install(s, "IsDocked", NoPath)

\* A consumer calls LidIsPresent(); UPower's LidIsPresent property reads prop.
CallLidIsPresent ==
    /\ ~crashed
    /\ \E prop \in BOOLEAN :
          \E s \in Dereference(Begin(Cur), upower, LidIsPresent(Cur, prop)) :
              Install(s, "LidIsPresent", << prop >>)

\* A consumer calls LidIsClosed().
CallLidIsClosed ==
    /\ ~crashed
    /\ \E s \in Dereference(Begin(Cur), upower, LidIsClosed(Cur, upLidClosed)) :
          Install(s, "LidIsClosed", NoPath)

\* A consumer calls OnBattery().
CallOnBattery ==
    /\ ~crashed
    /\ \E s \in Dereference(Begin(Cur), upower, OnBattery(Cur, upOnBattery)) :
          Install(s, "OnBattery", NoPath)

\* A consumer calls CanRestart().
CallCanRestart ==
    /\ ~crashed
    /\ \E valid \in BOOLEAN, reply \in Replies :
          Install(CanRestart(Begin(Cur), valid, reply), "CanRestart",
                  [valid |-> valid, reply |-> reply])

\* A consumer calls CanPowerOff().
CallCanPowerOff ==
    /\ ~crashed
    /\ \E valid \in BOOLEAN, reply \in Replies :
          Install(CanPowerOff(Begin(Cur), valid, reply), "CanPowerOff",
                  [valid |-> valid, reply |-> reply])

\* A consumer calls CanSuspend().
CallCanSuspend ==
    /\ ~crashed
    /\ \E valid \in BOOLEAN, reply \in Replies :
          Install(CanSuspend(Begin(Cur), valid, reply), "CanSuspend",
                  [valid |-> valid, reply |-> reply])

\* A consumer calls CanHibernate().
CallCanHibernate ==
    /\ ~crashed
    /\ \E valid \in BOOLEAN, reply \in Replies :
          Install(CanHibernate(Begin(Cur), valid, reply), "CanHibernate",
                  [valid |-> valid, reply |-> reply])

\* A consumer calls CanHybridSleep().
CallCanHybridSleep ==
    /\ ~crashed
    /\ \E valid \in BOOLEAN, reply \in Replies :
          Install(CanHybridSleep(Begin(Cur), valid, reply), "CanHybridSleep",
                  [valid |-> valid, reply |-> reply])

\* A consumer calls Restart().
CallRestart ==
    /\ ~crashed
    /\ \E valid \in BOOLEAN, reply \in Replies :
          Install(Restart(Begin(Cur), valid, reply), "Restart",
                  [valid |-> valid, reply |-> reply])

\* A consumer calls PowerOff().
CallPowerOff ==
    /\ ~crashed
    /\ \E valid \in BOOLEAN, reply \in Replies :
          Install(PowerOff(Begin(Cur), valid, reply), "PowerOff",
                  [valid |-> valid, reply |-> reply])

\* A consumer calls Suspend().
CallSuspend ==
    /\ ~crashed
    /\ \E valid \in BOOLEAN, reply \in Replies :
          Install(Suspend(Begin(Cur), valid, reply), "Suspend",
                  [valid |-> valid, reply |-> reply])

\* A consumer calls Hibernate().
CallHibernate ==
    /\ ~crashed
    /\ \E valid \in BOOLEAN, reply \in Replies :
          Install(Hibernate(Begin(Cur), valid, reply), "Hibernate",
                  [valid |-> valid, reply |-> reply])

\* A consumer calls HybridSleep().
CallHybridSleep ==
    /\ ~crashed
    /\ \E valid \in BOOLEAN, reply \in Replies :
          Install(HybridSleep(Begin(Cur), valid, reply), "HybridSleep",
                  [valid |-> valid, reply |-> reply])

\* --- the tray ---

\* The configuration changes: loadSettings().
LoadSettings ==
    /\ hasInhibit' = hasInhibit
    /\ \E conf \in Settings :
          /\ conf # settings
          /\ InstallTray(loadSettings(TrayCur, conf), "loadSettings", NoPath)

\* The timer fires: timeout().  The counter is followed up to MaxTicks.
Timeout ==
    /\ hasInhibit' = hasInhibit
    /\ \E idle \in IdleTimes :
          LET t == timeout(TrayCur, OnBattery(Cur, upOnBattery), idle, hasInhibit)
          IN  /\ t.timeouts <= MaxTicks
              /\ InstallTray(t, "timeout", << idle >>)

\* An application takes the first power-management inhibit or releases the
\* last one: pm emits HasInhibitChanged, handleHasInhibitChanged() runs.
HasInhibitChanged ==
    /\ hasInhibit' = ~hasInhibit
    /\ InstallTray(handleHasInhibitChanged(TrayCur, ~hasInhibit),
                   "handleHasInhibitChanged", << ~hasInhibit >>)

\* The hot-plug watcher reports a display: handleDisplay().
DisplayStatus ==
    /\ hasInhibit' = hasInhibit
    /\ \E display \in Displays, connected \in BOOLEAN :
          InstallTray(handleDisplay(TrayCur, display, connected),
                      "handleDisplay", << display, connected >>)

\* The hot-plug watcher reports its scan: handleFoundDisplays().
FoundDisplays ==
    /\ hasInhibit' = hasInhibit
    /\ \E names \in SUBSET Displays : \E displays \in [names -> BOOLEAN] :
          InstallTray(handleFoundDisplays(TrayCur, displays),
                      "handleFoundDisplays", NoPath)

\* One second after construction: setInternalMonitor().
SetInternalMonitor ==
    /\ hasInhibit' = hasInhibit
    /\ internalMonitor = << >>
    /\ InstallTray(setInternalMonitor(TrayCur), "setInternalMonitor", NoPath)

\* man announces a closed lid: handleClosedLid().
ClosedLid ==
    /\ hasInhibit' = hasInhibit
    /\ InstallTray(handleClosedLid(TrayCur, OnBattery(Cur, upOnBattery)),
                   "handleClosedLid", NoPath)

Next ==
    \/ BusChange
    \/ UPowerServiceChange
    \/ LogindServiceChange
    \/ ConsoleKitServiceChange
    \/ LevelChange
    \/ DockChange
    \/ DeviceListChange
    \/ DeviceChanged
    \/ DeviceAdded
    \/ DeviceRemoved
    \/ Check
    \/ QueryBatteryLeft
    \/ QueryTimeToEmpty
    \/ QueryTimeToFull
    \/ NewInhibitScreenSaver
    \/ NewInhibitPowerManagement
    \/ DelInhibitScreenSaver
    \/ DelInhibitPowerManagement
    \/ CallCanRestart
    \/ CallCanPowerOff
    \/ CallCanSuspend
    \/ CallCanHibernate
    \/ CallCanHybridSleep
    \/ CallRestart
    \/ CallPowerOff
    \/ CallSuspend
    \/ CallHibernate
    \/ CallHybridSleep
    \/ CallIsDocked
    \/ CallLidIsPresent
    \/ CallLidIsClosed
    \/ CallOnBattery
    \/ GetDevices
    \/ QueryHasBattery
    \/ NotifyResume
    \/ NotifySleep
    \/ PrepareForSleep
    \/ LoadSettings
    \/ Timeout
    \/ HasInhibitChanged
    \/ DisplayStatus
    \/ FoundDisplays
    \/ SetInternalMonitor
    \/ ClosedLid

\* The whole engine in its whole environment.
Spec == Init /\ [][Next]_vars

\* --- the state tracker on its own ---
\* The engine was built on a live bus on which UPower exported no device;
\* the services and the level facts move, the device list does not.

InitTracker ==
    /\ Init
    /\ busConnected
    /\ ~ckValid
    /\ upDevices = {}

NextTracker ==
    \/ UPowerServiceChange
    \/ LogindServiceChange
    \/ LevelChange
    \/ DockChange
    \/ DeviceChanged

SpecTracker == InitTracker /\ [][NextTracker]_vars

\* --- the device registry on its own ---
\* The engine was built on a live bus that stays up, without logind, undocked,
\* on AC and with the lid open; UPower and its device list come and go.

InitRegistry ==
    /\ Init
    /\ busConnected
    /\ ~ckValid
    /\ ~upLidClosed
    /\ ~upOnBattery
    /\ ~lgValid
    /\ ~upDocked
    /\ ~lgDocked

NextRegistry ==
    \/ UPowerServiceChange
    \/ DeviceListChange
    \/ DeviceAdded
    \/ DeviceRemoved
    \/ Check

SpecRegistry == InitRegistry /\ [][NextRegistry]_vars

\* --- the aggregate queries on their own ---
\* The engine was built on a live bus and tracks some Devices, whose cached
\* attributes are any of DeviceStates; UPower comes and goes, the power
\* source and the lid change, and a consumer asks for the aggregates.

InitAggregate ==
    \E ids \in SUBSET DevIds : \E devs \in [ids -> DeviceStates] :
    \E valid \in BOOLEAN, bat \in BOOLEAN :
        /\ busConnected = TRUE
        /\ upValid = valid
        /\ lgValid = FALSE
        /\ ckValid = FALSE
        /\ upLidClosed = FALSE
        /\ upOnBattery = bat
        /\ upDocked = FALSE
        /\ lgDocked = FALSE
        /\ upDevices = ids
        /\ upower = "iface"
        /\ logind = "iface"
        /\ hooks = 1
        /\ devices = devs
        /\ wasDocked = FALSE
        /\ wasLidClosed = FALSE
        /\ wasOnBattery = FALSE
        /\ ssInhibitors = << >>
        /\ pmInhibitors = << >>
        /\ crashed = FALSE
        /\ emitted = << >>
        /\ updated = {}
        /\ created = {}
        /\ destroyed = {}
        /\ scans = 0
        /\ finds = << >>
        /\ batteryUpdated = {}
        /\ calls = << >>
        /\ result = NoResult
        /\ snapshot = << >>
        /\ op = [name |-> "environment", path |-> NoPath]
        /\ SysTray

NextAggregate ==
    \/ UPowerServiceChange
    \/ LevelChange
    \/ QueryBatteryLeft
    \/ QueryTimeToEmpty
    \/ QueryTimeToFull
    \/ QueryHasBattery

SpecAggregate == InitAggregate /\ [][NextAggregate]_vars

\* --- the inhibitor ledger on its own ---
\* The engine was built on a live bus with UPower up, exporting one device,
\* and without logind.  Inhibit and UnInhibit requests arrive between
\* change signals that find the lid and the power source in any position.

InitLedger ==
    /\ Init
    /\ busConnected
    /\ ~ckValid
    /\ upValid
    /\ ~lgValid
    /\ ~upDocked
    /\ ~lgDocked
    /\ ~upLidClosed
    /\ ~upOnBattery
    /\ upDevices = { DevOrder[1] }

NextLedger ==
    \/ DeviceChanged
    \/ NewInhibitScreenSaver
    \/ NewInhibitPowerManagement
    \/ DelInhibitScreenSaver
    \/ DelInhibitPowerManagement

SpecLedger == InitLedger /\ [][NextLedger]_vars

\* --- the connection supervisor on its own ---
\* The engine was built on a bus that was up or down, without logind and
\* ConsoleKit, undocked, on AC and with the lid open; the bus, UPower and
\* its device list come and go, the timer ticks, UPower announces devices
\* and a consumer asks for the power source.

InitSupervisor ==
    /\ Init
    /\ ~ckValid
    /\ ~lgValid
    /\ ~upLidClosed
    /\ ~upOnBattery
    /\ ~upDocked
    /\ ~lgDocked

NextSupervisor ==
    \/ BusChange
    \/ UPowerServiceChange
    \/ DeviceListChange
    \/ Check
    \/ DeviceAdded
    \/ CallOnBattery

SpecSupervisor == InitSupervisor /\ [][NextSupervisor]_vars

\* The timer keeps ticking: check() runs again and again.
SpecSupervisorTicking == SpecSupervisor /\ WF_vars(Check)

\* --- the sleep notifications on their own ---
\* The engine was built on a live bus on which UPower exported no device;
\* the services and the level facts move, the level caches follow them, and
\* UPower and logind announce suspends and resumes.

InitSleep == InitTracker

NextSleep ==
    \/ UPowerServiceChange
    \/ LogindServiceChange
    \/ LevelChange
    \/ DeviceChanged
    \/ NotifyResume
    \/ NotifySleep
    \/ PrepareForSleep

SpecSleep == InitSleep /\ [][NextSleep]_vars

\* --- the tray's idle timer ---
\* The engine was built on a live bus on which UPower exported no device;
\* UPower and the power source come and go, the configuration changes,
\* inhibits are taken and released, and the timer ticks.

InitTimer ==
    /\ InitTracker
    /\ ~lgValid
    /\ ~upLidClosed
    /\ ~upDocked
    /\ ~lgDocked

NextTimer ==
    \/ UPowerServiceChange
    \/ LevelChange
    \/ LoadSettings
    \/ HasInhibitChanged
    \/ Timeout

SpecTimer == InitTimer /\ [][NextTimer]_vars

\* --- the tray's lid handler ---
\* As above, with displays coming and going and the lid closing instead of
\* the timer.

NextLid ==
    \/ UPowerServiceChange
    \/ LevelChange
    \/ LoadSettings
    \/ DisplayStatus
    \/ FoundDisplays
    \/ SetInternalMonitor
    \/ ClosedLid

SpecLid == InitTimer /\ [][NextLid]_vars

\* --- a consumer of the device map ---
\* The engine was built on a live bus that stays up, with UPower valid; the
\* device list comes and goes, UPower announces it, and a consumer reads the
\* map.

InitConsumer ==
    /\ InitRegistry
    /\ upValid

NextConsumer ==
    \/ DeviceListChange
    \/ DeviceAdded
    \/ DeviceRemoved
    \/ GetDevices

SpecConsumer == InitConsumer /\ [][NextConsumer]_vars

\* --- the level-fact queries on their own ---
\* The engine was built on a live bus on which UPower exported no device;
\* the services and the level facts move, and a consumer asks for the facts.

InitFacts ==
    /\ Init
    /\ busConnected
    /\ ~ckValid
    /\ upDevices = {}

NextFacts ==
    \/ UPowerServiceChange
    \/ LogindServiceChange
    \/ LevelChange
    \/ DockChange
    \/ CallIsDocked
    \/ CallLidIsPresent
    \/ CallLidIsClosed
    \/ CallOnBattery

SpecFacts == InitFacts /\ [][NextFacts]_vars

\* --- the backend selector on its own ---
\* The engine was built on a live bus that exported no device; logind,
\* ConsoleKit and UPower come and go, and a consumer asks for capabilities
\* and actions.

InitBackend ==
    /\ Init
    /\ busConnected
    /\ upDevices = {}
    /\ ~upLidClosed
    /\ ~upOnBattery
    /\ ~upDocked
    /\ ~lgDocked

NextBackend ==
    \/ UPowerServiceChange
    \/ LogindServiceChange
    \/ ConsoleKitServiceChange
    \/ CallCanRestart
    \/ CallCanPowerOff
    \/ CallCanSuspend
    \/ CallCanHibernate
    \/ CallCanHybridSleep
    \/ CallRestart
    \/ CallPowerOff
    \/ CallSuspend
    \/ CallHibernate
    \/ CallHybridSleep

SpecBackend == InitBackend /\ [][NextBackend]_vars

\* ------------------------------------------------------------------------
\* Properties of the state tracker (checked under SpecTracker).
\* ------------------------------------------------------------------------

\* The last step ran the handler called name.
Ran(name) == op.name = name

LidEdges(evs) == Count(evs, "LidClosed") + Count(evs, "LidOpened")

BatteryEdges(evs) == Count(evs, "SwitchedToBattery") + Count(evs, "SwitchedToAC")

\* C1: over successive refresh() calls, SwitchedToBattery is emitted exactly
\* once when the value a call observes (and caches) is true and the value
\* the call before it observed was false, SwitchedToAC exactly once in the
\* opposite case, and neither when the observed value equals the cached one.
C1_BatteryEdgeOncePerTransition ==
    [][ Ran("deviceChanged")' =>
          /\ Count(emitted', "SwitchedToBattery")
                = (IF ~wasOnBattery /\ wasOnBattery' THEN 1 ELSE 0)
          /\ Count(emitted', "SwitchedToAC")
                = (IF wasOnBattery /\ ~wasOnBattery' THEN 1 ELSE 0) ]_vars

\* C2: within one refresh() call an edge event of a fact is emitted if and
\* only if the call changes the fact's cached value.
C2_EdgeIffCacheMoves ==
    [][ Ran("deviceChanged")' =>
          /\ (wasLidClosed' # wasLidClosed) <=> (LidEdges(emitted') > 0)
          /\ (wasOnBattery' # wasOnBattery) <=> (BatteryEdges(emitted') > 0) ]_vars

\* C3: one refresh() call emits at most one of LidClosed / LidOpened and at
\* most one of SwitchedToBattery / SwitchedToAC.
C3_AtMostOneEdgePerFact ==
    Ran("deviceChanged") => LidEdges(emitted) <= 1 /\ BatteryEdges(emitted) <= 1

\* A refresh() that emitted an edge event of each fact.
C3_Witness ==
    /\ Ran("deviceChanged")
    /\ Count(emitted, "LidClosed") = 1
    /\ Count(emitted, "SwitchedToAC") = 1

\* C4: after a refresh() call the three caches hold the values of the level
\* facts as the call left them observed.
C4_CachesHoldObserved ==
    Ran("deviceChanged") =>
        /\ wasLidClosed = LidIsClosed(Cur, upLidClosed)
        /\ wasOnBattery = OnBattery(Cur, upOnBattery)
        /\ wasDocked = IsDocked(Cur)

\* C5: a refresh() call emits UpdatedDevices exactly once, as its last
\* event, whether or not an edge event was emitted.
C5_UpdatedDevicesLast ==
    Ran("deviceChanged") =>
        /\ Count(emitted, "UpdatedDevices") = 1
        /\ emitted[Len(emitted)] = Ev("UpdatedDevices")

\* A refresh() that emitted no edge event and still announced the update.
C5_Witness ==
    /\ Ran("deviceChanged")
    /\ emitted = << Ev("UpdatedDevices") >>

\* ------------------------------------------------------------------------
\* Properties of the device registry (checked under SpecRegistry).
\* ------------------------------------------------------------------------

\* The last step was a handler that is one scan() behind its filters:
\* deviceAdded() that passed them, or check() with UPower invalid.
RanScanOnly == (Ran("deviceAdded") \/ Ran("check")) /\ scans = 1

\* The last step was a deviceAdded() / deviceRemoved() the filters let pass.
Passed(name) ==
    /\ Ran(name)
    /\ upValid
    /\ ~StartsWith(op.path, DBUS_JOBS)

Tracked == DOMAIN devices

Last(seq) == seq[Len(seq)]

\* C6: scan() tracks the union of what was tracked and what UPower lists:
\* it builds one Device for each listed id that was not tracked and deletes
\* or rebuilds none, so an id reported again keeps its one Device.
C6_ScanAddsOnlyNew ==
    [][ RanScanOnly' =>
          /\ Tracked' = Tracked \cup finds'[1]
          /\ created' = finds'[1] \ Tracked
          /\ destroyed' = {} ]_vars

\* deviceAdded() for an id that is listed and was tracked already.
C6_Witness ==
    /\ Passed("deviceAdded")
    /\ op.path \in finds[1]
    /\ op.path \in Tracked
    /\ op.path \notin created

\* C7 as stated: scan() does not refresh a Device that was tracked before it
\* and leaves its cached attributes as they were.
C7_ScanLeavesTrackedUntouched ==
    [][ RanScanOnly' =>
          \A id \in Tracked :
              /\ id \notin updated'
              /\ id \in Tracked' /\ devices'[id] = devices[id] ]_vars

\* C7 as amended: scan() calls update() on every Device it tracks when it
\* ends, those tracked before it included, and deletes or rebuilds none of
\* the Devices tracked before it.
C7_ScanUpdatesEveryTracked ==
    [][ RanScanOnly' =>
          /\ updated' = Tracked'
          /\ Tracked \subseteq updated'
          /\ created' \cap Tracked = {}
          /\ destroyed' = {} ]_vars

\* A scan() that refreshed a Device it had not just created.
C7_Witness ==
    /\ RanScanOnly
    /\ updated \ created # {}

\* C8: a handler that ran scan() emitted UpdatedDevices last, whatever the
\* listing returned and whether or not a Device was created.
C8_ScanEndsWithUpdated ==
    scans > 0 => emitted # << >> /\ Last(emitted) = Ev("UpdatedDevices")

\* A scan() whose listing came back empty and that created nothing.
C8_Witness ==
    /\ RanScanOnly
    /\ Last(finds) = {}
    /\ created = {}
    /\ Last(emitted) = Ev("UpdatedDevices")

\* C9: deviceAdded(id) with id under the jobs path or with UPower invalid
\* changes no Device, runs no scan and emits nothing; any other
\* deviceAdded(id) runs scan().
C9_DeviceAddedFilter ==
    [][ Ran("deviceAdded")' =>
          IF StartsWith(op'.path, DBUS_JOBS) \/ ~upValid
          THEN devices' = devices /\ scans' = 0 /\ emitted' = << >>
          ELSE scans' = 1 ]_vars

\* deviceAdded() for a job path, with UPower valid: ignored.
C9_Witness ==
    /\ Ran("deviceAdded")
    /\ upValid
    /\ op.path \in JobPaths
    /\ scans = 0

\* C10: a deviceRemoved(id) the filters let pass deletes the Device of id
\* and emits DeviceWasRemoved(id), once, exactly when id was tracked and the
\* list it asked UPower for does not hold id; otherwise it deletes nothing
\* and announces no removal.
C10_RemovedIffTrackedAndUnlisted ==
    [][ Passed("deviceRemoved")' =>
          LET gone == op'.path \in Tracked /\ op'.path \notin finds'[1]
          IN  /\ destroyed' = (IF gone THEN {op'.path} ELSE {})
              /\ Count(emitted', "DeviceWasRemoved") = (IF gone THEN 1 ELSE 0)
              /\ gone => emitted'[1] = EvPath("DeviceWasRemoved", op'.path) ]_vars

\* A deviceRemoved() that deleted the Device and announced it.
C10_Witness ==
    /\ Passed("deviceRemoved")
    /\ destroyed = {op.path}
    /\ emitted[1] = EvPath("DeviceWasRemoved", op.path)

\* A step that is a deviceRemoved(id) the filters let pass, for an id that
\* was tracked and that UPower still listed when the handler asked.
StaleRemovalStep ==
    /\ Passed("deviceRemoved")'
    /\ op'.path \in Tracked
    /\ op'.path \in finds'[1]

\* C11: a stale removal is a no-op: deviceRemoved(id) for a tracked id that
\* UPower still lists keeps the Device of id as it is, changes no member of
\* the engine, creates, deletes and refreshes nothing and emits no event.
C11_StaleRemovalIsNoOp ==
    [][ StaleRemovalStep =>
          /\ devices' = devices
          /\ << wasDocked', wasLidClosed', wasOnBattery' >>
                = << wasDocked, wasLidClosed, wasOnBattery >>
          /\ << ssInhibitors', pmInhibitors', upower', logind', hooks' >>
                = << ssInhibitors, pmInhibitors, upower, logind, hooks >>
          /\ created' = {} /\ destroyed' = {} /\ updated' = {}
          /\ emitted' = << >> ]_vars

\* A stale removal: the id is still tracked and nothing was announced.
C11_Witness ==
    /\ Passed("deviceRemoved")
    /\ op.path \in Tracked
    /\ Len(finds) = 1
    /\ op.path \in finds[1]
    /\ emitted = << >>

\* C12 as stated: every deviceRemoved(id) the filters let pass runs scan()
\* and so emits UpdatedDevices before it returns, the stale case included.
C12_RemovalAlwaysScans ==
    Passed("deviceRemoved") =>
        scans >= 1 /\ Count(emitted, "UpdatedDevices") >= 1

\* C12 as amended: a deviceRemoved(id) the filters let pass runs scan() once
\* and ends with UpdatedDevices when id was untracked or its Device was
\* deleted; in the stale case, where id is tracked and UPower still lists
\* it, the handler returns without a scan and without an event.
C12_RemovalScansUnlessStale ==
    [][ Passed("deviceRemoved")' =>
          IF StaleRemovalStep
          THEN scans' = 0 /\ Count(emitted', "UpdatedDevices") = 0
          ELSE scans' = 1 /\ Last(emitted') = Ev("UpdatedDevices") ]_vars

\* A removal signal for an untracked id: nothing to delete, scan() ran.
C12_Witness ==
    /\ Passed("deviceRemoved")
    /\ destroyed = {}
    /\ scans = 1
    /\ Last(emitted) = Ev("UpdatedDevices")

\* C13: once a handler has run scan(), or a removal notification has been
\* processed, no tracked id is absent from the list UPower exports.
C13_UnlistedNotTracked ==
    (scans >= 1 \/ Passed("deviceRemoved")) => Tracked \subseteq upDevices

\* ------------------------------------------------------------------------
\* Properties of the aggregate queries (checked under SpecAggregate).
\* ------------------------------------------------------------------------

\* The tracked ids whose Device counts for the aggregates.
QualifyingIds ==
    { id \in Tracked : /\ devices[id].isBattery
                       /\ devices[id].isPresent
                       /\ devices[id].nativePath # "" }

\* The sum of field over the Devices tracked as ids.
RECURSIVE SumOver(_, _)
SumOver(ids, field) ==
    IF ids = {} THEN 0
    ELSE LET id == CHOOSE x \in ids : TRUE
         IN  devices[id][field] + SumOver(ids \ {id}, field)

\* The value r is the number v.
IsNumber(r, v) == r.den # 0 /\ r.num = v * r.den

\* C14: BatteryLeft() returns 0 when no tracked Device qualifies, the case
\* of an empty device map included; it never divides by a zero count.
C14_BatteryLeftZeroWhenNoneQualify ==
    (Ran("BatteryLeft") /\ ~crashed /\ QualifyingIds = {}) =>
        IsNumber(result, 0)

C16_TimeSumsOverQualifying ==
    /\ (Ran("TimeToEmpty") /\ ~crashed) =>
           IsNumber(result, SumOver(QualifyingIds, "timeToEmpty"))
    /\ (Ran("TimeToFull") /\ ~crashed) =>
           IsNumber(result, SumOver(QualifyingIds, "timeToFull"))
    /\ (Ran("BatteryLeft") /\ ~crashed) =>
           result.num * Cardinality(QualifyingIds)
              = SumOver(QualifyingIds, "percentage") * result.den

\* TimeToEmpty() over a qualifying battery and a present battery without
\* native path whose timeToEmpty is not 0.
C16_Witness ==
    /\ Ran("TimeToEmpty")
    /\ QualifyingIds # {}
    /\ \E id \in Tracked :
          /\ devices[id].isBattery /\ devices[id].isPresent
          /\ devices[id].nativePath = ""
          /\ devices[id].timeToEmpty > 0
    /\ IsNumber(result, SumOver(QualifyingIds, "timeToEmpty"))

IsUpsert(f, g, cookie, application) ==
    /\ DOMAIN g = DOMAIN f \cup {cookie}
    /\ g[cookie] = application
    /\ \A k \in DOMAIN f \ {cookie} : g[k] = f[k]

\* The table g is the table f without cookie.
IsWithout(f, g, cookie) ==
    /\ DOMAIN g = DOMAIN f \ {cookie}
    /\ \A k \in DOMAIN g : g[k] = f[k]

Contains(list, x) == \E i \in 1..Len(list) : list[i] = x

RanAdd == Ran("handleNewInhibitScreenSaver") \/ Ran("handleNewInhibitPowerManagement")

RanDel == Ran("handleDelInhibitScreenSaver") \/ Ran("handleDelInhibitPowerManagement")

\* C18: an inhibitor add is an unconditional upsert: afterwards the table
\* maps the cookie to the given application, a cookie that was present
\* keeps one entry with the new name, UpdatedInhibitors is emitted exactly
\* once and the table's list holds the application.
C18_AddIsUpsert ==
    [][ /\ Ran("handleNewInhibitScreenSaver")' =>
              /\ IsUpsert(ssInhibitors, ssInhibitors', op'.path[2], op'.path[1])
              /\ op'.path[2] \in DOMAIN ssInhibitors =>
                    Cardinality(DOMAIN ssInhibitors')
                        = Cardinality(DOMAIN ssInhibitors)
              /\ emitted' = << Ev("UpdatedInhibitors") >>
              /\ Contains(ScreenSaverInhibitors(Cur)', op'.path[1])
        /\ Ran("handleNewInhibitPowerManagement")' =>
              /\ IsUpsert(pmInhibitors, pmInhibitors', op'.path[2], op'.path[1])
              /\ op'.path[2] \in DOMAIN pmInhibitors =>
                    Cardinality(DOMAIN pmInhibitors')
                        = Cardinality(DOMAIN pmInhibitors)
              /\ emitted' = << Ev("UpdatedInhibitors") >>
              /\ Contains(PowerManagementInhibitors(Cur)', op'.path[1])
      ]_vars

\* An add whose application now stands beside another cookie's entry.
C18_Witness ==
    /\ Ran("handleNewInhibitScreenSaver")
    /\ ssInhibitors[op.path[2]] = op.path[1]
    /\ Cardinality(DOMAIN ssInhibitors) = MaxCookie
    /\ Len(ScreenSaverInhibitors(Cur)) = MaxCookie
    /\ emitted = << Ev("UpdatedInhibitors") >>

\* C19: an inhibitor remove of an absent cookie changes neither table and
\* emits nothing; a remove of a present cookie deletes that entry and no
\* other and emits UpdatedInhibitors once, so that removing the only entry
\* leaves the table's list empty.
C19_RemoveAbsentIsNoOp ==
    [][ /\ Ran("handleDelInhibitScreenSaver")' =>
              /\ pmInhibitors' = pmInhibitors
              /\ IF op'.path[1] \in DOMAIN ssInhibitors
                 THEN /\ IsWithout(ssInhibitors, ssInhibitors', op'.path[1])
                      /\ emitted' = << Ev("UpdatedInhibitors") >>
                      /\ DOMAIN ssInhibitors = { op'.path[1] } =>
                            ScreenSaverInhibitors(Cur)' = << >>
                 ELSE /\ ssInhibitors' = ssInhibitors
                      /\ emitted' = << >>
        /\ Ran("handleDelInhibitPowerManagement")' =>
              /\ ssInhibitors' = ssInhibitors
              /\ IF op'.path[1] \in DOMAIN pmInhibitors
                 THEN /\ IsWithout(pmInhibitors, pmInhibitors', op'.path[1])
                      /\ emitted' = << Ev("UpdatedInhibitors") >>
                      /\ DOMAIN pmInhibitors = { op'.path[1] } =>
                            PowerManagementInhibitors(Cur)' = << >>
                 ELSE /\ pmInhibitors' = pmInhibitors
                      /\ emitted' = << >>
      ]_vars

\* A remove of an absent cookie: nothing emitted, the other entry kept.
C19_Witness ==
    /\ Ran("handleDelInhibitScreenSaver")
    /\ emitted = << >>
    /\ op.path[1] \notin DOMAIN ssInhibitors
    /\ ssInhibitors # << >>

\* C20: an add or remove on one inhibitor table leaves the other table as
\* it was, also when the other table holds the same cookie, and no add or
\* remove changes the tracked Devices or the three caches.
C20_TablesIndependent ==
    [][ /\ (Ran("handleNewInhibitScreenSaver") \/ Ran("handleDelInhibitScreenSaver"))'
              => pmInhibitors' = pmInhibitors
        /\ (Ran("handleNewInhibitPowerManagement") \/ Ran("handleDelInhibitPowerManagement"))'
              => ssInhibitors' = ssInhibitors
        /\ (RanAdd \/ RanDel)' =>
              /\ devices' = devices
              /\ << wasDocked', wasLidClosed', wasOnBattery' >>
                    = << wasDocked, wasLidClosed, wasOnBattery >>
      ]_vars

\* A power-management remove that took effect while the screen-saver table
\* holds the same cookie, with a Device tracked and a cache set.
C20_Witness ==
    /\ Ran("handleDelInhibitPowerManagement")
    /\ emitted = << Ev("UpdatedInhibitors") >>
    /\ op.path[1] \in DOMAIN ssInhibitors
    /\ Tracked # {}
    /\ wasOnBattery

\* ------------------------------------------------------------------------
\* Properties of the backend selector (checked under SpecBackend).
\* ------------------------------------------------------------------------

\* The backend answers now.
Reachable(backend) ==
    IF backend = PKLogind THEN lgValid
    ELSE IF backend = PKConsoleKit THEN ckValid
    ELSE upValid

\* The first backend of the priority list order that answers, or "none".
RECURSIVE FirstReachable(_)
FirstReachable(order) ==
    IF order = << >> THEN "none"
    ELSE IF Reachable(Head(order)) THEN Head(order)
    ELSE FirstReachable(Tail(order))

\* The priority list of a capability query or action.
Order(name) ==
    IF name \in { "CanSuspend", "CanHibernate", "Suspend", "Hibernate" }
    THEN << PKLogind, PKConsoleKit, PKUPower >>
    ELSE << PKLogind, PKConsoleKit >>

CapabilityNames ==
    { "CanRestart", "CanPowerOff", "CanSuspend", "CanHibernate", "CanHybridSleep" }

ActionNames == { "Restart", "PowerOff", "Suspend", "Hibernate", "HybridSleep" }

\* The reply says yes: the string "yes" or the boolean true, without error.
Affirmative(reply) ==
    /\ reply.errorMessage = ""
    /\ reply.first \in { StringVariant("yes"), BoolVariant(TRUE) }

\* The step leaves the engine's members as they were.
EngineUnchanged ==
    /\ devices' = devices
    /\ << wasDocked', wasLidClosed', wasOnBattery' >>
          = << wasDocked, wasLidClosed, wasOnBattery >>
    /\ << ssInhibitors', pmInhibitors' >> = << ssInhibitors, pmInhibitors >>
    /\ << upower', logind', hooks' >> = << upower, logind, hooks >>

\* C21: a capability query is answered by the first reachable backend of
\* its priority list alone (logind, ConsoleKit, then UPower for CanSuspend
\* and CanHibernate only): it is true exactly when that backend is still
\* there for the probe and its reply is affirmative, and false when no
\* backend of the list is reachable; a negative reply of the chosen backend
\* is final and no other backend is asked.
C21_FirstReachableDecides ==
    [][ \A name \in CapabilityNames :
          Ran(name)' =>
            LET b == FirstReachable(Order(name))
            IN  /\ result' = Bool(/\ b # "none"
                                  /\ op'.path.valid
                                  /\ Affirmative(op'.path.reply))
                /\ \A i \in 1..Len(calls') : calls'[i].backend = b ]_vars

\* C22: an action sends its call to the backend only after a capability
\* probe of the same backend.
C22_ActionAfterCapability ==
    \A name \in ActionNames :
        (Ran(name) /\ calls # << >>) =>
            /\ Len(calls) >= 2
            /\ calls[1].method \in CapabilityNames \cup { PKSuspendAllowed, PKHibernateAllowed }
            /\ calls[1].backend = Last(calls).backend

C24_LevelFactsFallBack ==
    /\ Ran("IsDocked") =>
          result = Bool(IF lgValid THEN lgDocked
                        ELSE IF upValid THEN upDocked
                        ELSE FALSE)
    /\ Ran("LidIsPresent") => result = Bool(upValid /\ op.path[1])
    /\ Ran("LidIsClosed") => result = Bool(upValid /\ upLidClosed)
    /\ Ran("OnBattery") => result = Bool(upValid /\ upOnBattery)

\* IsDocked() with logind valid and undocked while UPower says docked.
C24_Witness ==
    /\ Ran("IsDocked")
    /\ lgValid /\ ~lgDocked
    /\ upValid /\ upDocked
    /\ result = Bool(FALSE)

\* ------------------------------------------------------------------------
\* Properties of the connection supervisor (checked under SpecSupervisor
\* and SpecSupervisorTicking).
\* ------------------------------------------------------------------------

\* Both handles exist.
HandlesExist == upower = "iface" /\ logind = "iface"

\* The members the supervisor owns are as they were.
SupervisorUnchanged ==
    /\ hooks' = hooks
    /\ upower' = upower
    /\ logind' = logind

\* C25: check() on a live bus with a valid upower handle subscribes to
\* nothing, runs no scan and emits no event: however many such checks run
\* in a row, every signal keeps its one hook and so reaches its handler once
\* per emission, and the tracked Devices are the same.
C25_LiveCheckDoesNothing ==
    [][ (Ran("check")' /\ busConnected /\ upower = "iface" /\ upValid) =>
            /\ SupervisorUnchanged
            /\ hooks' = 1
            /\ scans' = 0
            /\ emitted' = << >>
            /\ devices' = devices ]_vars

\* Two live checks in a row: the second one did nothing either.
C25_Witness ==
    /\ Ran("check")
    /\ busConnected /\ upValid /\ HandlesExist
    /\ hooks = 1
    /\ scans = 0
    /\ emitted = << >>
    /\ DOMAIN devices # {}

\* C26: check() that finds the bus down runs setup() and nothing else:
\* if the bus is still down nothing happens, and if it is up by then the
\* handles exist afterwards, every signal has exactly one hook however
\* often setup() has run before, and one scan has run.  No run of setup()
\* leaves a signal with two hooks or replaces a handle.  check() on a live
\* bus with an invalid upower handle runs one scan and neither subscribes
\* nor touches the handles.
C26_SetupIsIdempotent ==
    [][ /\ hooks' <= 1
        /\ upower # "null" => upower' = upower
        /\ logind # "null" => logind' = logind
        /\ (Ran("check")' /\ ~busConnected) =>
              IF busConnected'
              THEN /\ HandlesExist'
                   /\ hooks' = 1
                   /\ scans' = 1
              ELSE /\ SupervisorUnchanged
                   /\ scans' = 0
                   /\ emitted' = << >>
                   /\ devices' = devices
        /\ (Ran("check")' /\ busConnected /\ upower = "iface" /\ ~upValid) =>
              /\ SupervisorUnchanged
              /\ scans' = 1 ]_vars

\* check() has run setup() in full on an engine that tracked a Device
\* already: UPower is valid, so the scan is the one of setup().
C26_Witness ==
    /\ Ran("check")
    /\ busConnected /\ upValid /\ HandlesExist
    /\ hooks = 1
    /\ scans = 1
    /\ DOMAIN devices # {}
    /\ created = {}

\* The engine is CONNECTED: signals subscribed, handles created.
Connected == hooks > 0 /\ HandlesExist

\* C27: an engine built on a dead bus ends up CONNECTED once the bus is
\* live for good and check() keeps ticking (as long as the process lives).
C27_SelfHeals ==
    (~busConnected /\ <>[]busConnected /\ []~crashed) => <>Connected

\* C29: no handler evaluates upower->isValid() or logind->isValid() before
\* setup() has created the handles: after check() on a live bus, after
\* deviceAdded(), deviceRemoved() or a level-fact query the handles exist.
C29_HandlesNeverNull ==
    ( \/ Ran("check") /\ busConnected
      \/ Ran("deviceAdded")
      \/ Ran("deviceRemoved")
      \/ Ran("IsDocked")
      \/ Ran("LidIsPresent")
      \/ Ran("LidIsClosed")
      \/ Ran("OnBattery")
      \/ Ran("deviceChanged") ) => HandlesExist

\* ------------------------------------------------------------------------
\* Properties of what a consumer holds (checked under SpecConsumer).
\* ------------------------------------------------------------------------

\* C28: no value getDevices() has returned refers to a Device the engine
\* has destroyed since (the first thing a consumer holding copies is safe
\* from).
C28_NoDanglingDevice ==
    \A id \in DOMAIN snapshot : snapshot[id] # "deleted"

\* ------------------------------------------------------------------------
\* The level caches at construction (checked under SpecTracker).
\* ------------------------------------------------------------------------

\* C30: the caches are false when construction is over, and the first
\* refresh() after it emits LidClosed iff the lid value it observes (and
\* caches) is true, SwitchedToBattery iff the on-battery value it observes
\* is true, and neither LidOpened nor SwitchedToAC.
C30_FirstRefreshFromFalse ==
    [][ (Ran("PowerKit") /\ Ran("deviceChanged")') =>
          /\ ~wasLidClosed /\ ~wasOnBattery /\ ~wasDocked
          /\ Count(emitted', "LidClosed") = (IF wasLidClosed' THEN 1 ELSE 0)
          /\ Count(emitted', "SwitchedToBattery")
                = (IF wasOnBattery' THEN 1 ELSE 0)
          /\ Count(emitted', "LidOpened") = 0
          /\ Count(emitted', "SwitchedToAC") = 0 ]_vars

\* ------------------------------------------------------------------------
\* The capability probe (checked under SpecBackend).
\* ------------------------------------------------------------------------

\* C31: a capability probe is true only when the interface was valid and
\* the reply affirmative (the string "yes" or the boolean true) without an
\* error message, and false for an invalid interface, an error reply and
\* any other reply value (boolean false, "no", "na", "challenge").
C31_ProbeTrueOnlyIfAffirmative ==
    \A name \in CapabilityNames :
        (Ran(name) /\ calls # << >>) =>
            (result = Bool(TRUE) <=> Affirmative(op.path.reply))

\* ------------------------------------------------------------------------
\* The added-device announcement (checked under SpecRegistry).
\* ------------------------------------------------------------------------

\* C32: a deviceAdded(path) the filters let pass emits DeviceWasAdded(path)
\* exactly once, as its first event and so before the scan, whether or not
\* path was tracked already and whether or not UPower lists it; the event
\* alone tells neither that a Device was created nor that path is tracked.
C32_AddedAnnouncedOnce ==
    [][ Passed("deviceAdded")' =>
          /\ Count(emitted', "DeviceWasAdded") = 1
          /\ emitted'[1] = EvPath("DeviceWasAdded", op'.path)
          /\ scans' = 1
          /\ Last(emitted') = Ev("UpdatedDevices")
          /\ created' \subseteq Last(finds') \ DOMAIN devices ]_vars

\* DeviceWasAdded(path) for a path that is not tracked afterwards, no Device
\* having been created.
C32_Witness ==
    /\ Passed("deviceAdded")
    /\ emitted[1] = EvPath("DeviceWasAdded", op.path)
    /\ op.path \notin DOMAIN devices
    /\ created = {}

\* ------------------------------------------------------------------------
\* HasBattery() (checked under SpecAggregate).
\* ------------------------------------------------------------------------

\* C33: HasBattery() is true iff some tracked Device has isBattery, whatever
\* its isPresent and nativePath; it refreshes no Device, emits nothing and
\* changes no state, so it can be true while no Device counts for
\* BatteryLeft(), TimeToEmpty() and TimeToFull().
C33_HasBatteryIgnoresQualifying ==
    [][ Ran("HasBattery")' =>
          /\ result' = Bool(\E id \in DOMAIN devices : devices[id].isBattery)
          /\ EngineUnchanged
          /\ updated' = {} /\ batteryUpdated' = {}
          /\ scans' = 0
          /\ emitted' = << >> ]_vars

\* HasBattery() is true and no tracked Device qualifies for the aggregates.
C33_Witness ==
    /\ Ran("HasBattery")
    /\ result = Bool(TRUE)
    /\ QualifyingIds = {}

\* ------------------------------------------------------------------------
\* The sleep notifications (checked under SpecSleep).
\* ------------------------------------------------------------------------

\* C36: each sleep or resume notification is forwarded as exactly one
\* PrepareForSuspend event and nothing else, with the flag true for UPower's
\* NotifySleep, false for its NotifyResume and b for PrepareForSleep(b) of
\* logind or ConsoleKit; the Devices, the level caches and the inhibitor
\* tables stay as they were.
C36_SleepForwardedOnce ==
    [][ /\ Ran("handleSuspend")' => emitted' = << PrepareForSuspend(TRUE) >>
        /\ Ran("handleResume")' => emitted' = << PrepareForSuspend(FALSE) >>
        /\ Ran("handlePrepareForSuspend")' =>
              emitted' = << PrepareForSuspend(op'.path[1]) >>
        /\ ( \/ Ran("handleSuspend")'
             \/ Ran("handleResume")'
             \/ Ran("handlePrepareForSuspend")' ) => EngineUnchanged ]_vars

\* A resume forwarded while the caches hold a closed lid.
C36_Witness ==
    /\ Ran("handleResume")
    /\ emitted = << PrepareForSuspend(FALSE) >>
    /\ wasLidClosed

\* ------------------------------------------------------------------------
\* Properties of the tray (checked under SpecTimer and SpecLid).
\* ------------------------------------------------------------------------

\* The timeout configured for the power source the machine is on.
ConfiguredTimeout ==
    IF upValid /\ upOnBattery THEN settings.autoSuspendBattery
    ELSE settings.autoSuspendAC

\* The call the auto-suspend action configured for the power source makes.
ConfiguredSuspend ==
    LET action == IF upValid /\ upOnBattery THEN settings.autoSuspendBatteryAction
                  ELSE settings.autoSuspendACAction
    IN  IF action = suspendSleep THEN << "sleep" >>
        ELSE IF action = suspendHibernate THEN << "hibernate" >>
        ELSE IF action = suspendShutdown THEN << "shutdown" >>
        ELSE << >>

\* The tick whose idle time is op'.path[1] milliseconds may trigger: the
\* timeout is positive, the counter and the user's idle minutes have reached
\* it and no power-management inhibit is held.
MayTrigger ==
    /\ ConfiguredTimeout > 0
    /\ timeouts >= ConfiguredTimeout
    /\ op'.path[1] >= ConfiguredTimeout * 60000
    /\ ~hasInhibit

\* C34: a tick performs the configured auto-suspend action, and nothing
\* else, only when the configured timeout is positive, the tick counter and
\* the user's idle time have both reached it and no power-management
\* inhibit is held; the counter goes to 0 only on such a tick or when an
\* inhibit becomes active, every other tick adds one to it, and no other
\* step changes it.
C34_AutoSuspendOnlyWhenIdleAndFree ==
    [][ /\ Ran("timeout")' =>
              /\ performed' # << >> => (MayTrigger /\ performed' = ConfiguredSuspend)
              /\ performed' # << >> => timeouts' = 0
              /\ timeouts' = 0 => MayTrigger
              /\ timeouts' # 0 => (timeouts' = timeouts + 1 /\ performed' = << >>)
        /\ Ran("handleHasInhibitChanged")' =>
              timeouts' = (IF hasInhibit' THEN 0 ELSE timeouts)
        /\ ~(Ran("timeout")' \/ Ran("handleHasInhibitChanged")') =>
              (timeouts' = timeouts /\ performed' = << >>) ]_vars

\* A tick that suspended: the counter is back at 0.
C34_Witness ==
    /\ Ran("timeout")
    /\ performed = << "sleep" >>
    /\ timeouts = 0
    /\ ~hasInhibit

\* Some connected display is neither the internal one nor a virtual one.
ExternalConnected ==
    \E key \in DOMAIN monitors :
        /\ monitors[key]
        /\ key # internalMonitor
        /\ SubSeq(key, 1, 1) # VIRTUAL_MONITOR

\* C35: on a closed lid the tray makes at most one call, the one of
\* lidActionBattery when the machine is on battery at that moment and of
\* lidActionAC otherwise, and none at all when
\* disableLidOnExternalMonitors is set and some connected display is
\* neither the internal one nor a virtual one.
C35_LidActionByPowerSource ==
    Ran("handleClosedLid") =>
        LET type == IF upValid /\ upOnBattery THEN settings.lidActionBattery
                    ELSE settings.lidActionAC
            call == IF type = lidLock THEN << "lockScreen" >>
                    ELSE IF type = lidSleep THEN << "sleep" >>
                    ELSE IF type = lidHibernate THEN << "hibernate" >>
                    ELSE IF type = lidShutdown THEN << "shutdown" >>
                    ELSE << >>
        IN  /\ Len(performed) <= 1
            /\ performed \in { << >>, call }
            /\ (settings.disableLidOnExternalMonitors /\ ExternalConnected)
                  => performed = << >>

\* A closed lid ignored because an external display is connected, the
\* configured action being to sleep.
C35_Witness ==
    /\ Ran("handleClosedLid")
    /\ settings.disableLidOnExternalMonitors
    /\ ExternalConnected
    /\ upValid /\ upOnBattery
    /\ settings.lidActionBattery = lidSleep
    /\ internalMonitor = InternalDisplay
    /\ performed = << >>

====
